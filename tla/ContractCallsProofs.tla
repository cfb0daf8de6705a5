------------------------ MODULE ContractCallsProofs ------------------------
(***************************************************************************)
(* Type correctness of ContractCalls; that the shared status and return     *)
(* data always describe the frame that runs; which accounts frames act for; *)
(* what enters the registry; and that gas bounds the steps of a call.       *)
(***************************************************************************)
EXTENDS ContractCalls, SequenceLemmas, Induction, TLAPS

\* The last frame and its caller are frames of the stack.
LEMMA TopIsFrame ==
  ASSUME TypeOK, ~Idle
  PROVE  Len(frames) \in Nat \ {0} /\ Top \in Frame
BY LenProperties, ElementOfSeq, EmptySeq DEF TypeOK, Idle, Top

\* Below an ended callee there is a frame, and it is still running.
LEMMA CallerIsFrame ==
  ASSUME TypeOK, StackShape, ~Idle, Top.kind \in NestedKind
  PROVE  Len(frames) >= 2 /\ Caller \in Frame /\ Caller.ended = "running"
<1>1. Len(frames) \in Nat \ {0}
  BY TopIsFrame
<1>2. Len(frames) > 1
  BY <1>1 DEF StackShape, Top
<1>3. Len(frames) - 1 \in 1..Len(frames)
  BY <1>1, <1>2
<1>4. Caller \in Frame
  BY <1>3, ElementOfSeq DEF Caller, TypeOK
<1>5. Caller.ended = "running"
  BY <1>1, <1>3 DEF Caller, StackShape
<1> QED
  BY <1>1, <1>2, <1>4, <1>5

\* Replacing the last frame by one of the same kind keeps the stack's shape.
LEMMA SetTopKeeps ==
  ASSUME TypeOK, StackShape, ~Idle,
         NEW f \in Frame, f.kind = Top.kind, frames' = SetTop(f)
  PROVE  frames' \in Seq(Frame) /\ StackShape' /\ ~Idle' /\ Top' = f
         /\ Len(frames') = Len(frames)
<1>1. Len(frames) \in Nat \ {0} /\ Len(frames) \in 1..Len(frames)
  BY TopIsFrame
<1>2. /\ frames' \in Seq(Frame) /\ Len(frames') = Len(frames)
      /\ \A j \in 1..Len(frames) : frames'[j] = IF j = Len(frames) THEN f ELSE frames[j]
  BY <1>1, ExceptSeq DEF SetTop, TypeOK
<1>3. Top' = f
  BY <1>1, <1>2 DEF Top
<1>4. ~Idle'
  BY <1>1, <1>2, EmptySeq DEF Idle
<1>5. StackShape'
  BY <1>1, <1>2 DEF StackShape, Top
<1> QED
  BY <1>2, <1>3, <1>4, <1>5

\* A running frame stays below the frame of its callee.
LEMMA PushKeeps ==
  ASSUME TypeOK, StackShape, ~Idle,
         NEW f \in Frame, f.kind = Top.kind, f.ended = "running",
         NEW g \in Frame, g.kind \in NestedKind, frames' = Append(SetTop(f), g)
  PROVE  frames' \in Seq(Frame) /\ StackShape' /\ ~Idle' /\ Top' = g
<1> DEFINE s == SetTop(f)
<1>1. Len(frames) \in Nat \ {0} /\ Len(frames) \in 1..Len(frames)
  BY TopIsFrame
<1>2. /\ s \in Seq(Frame) /\ Len(s) = Len(frames)
      /\ \A j \in 1..Len(frames) : s[j] = IF j = Len(frames) THEN f ELSE frames[j]
  BY <1>1, ExceptSeq DEF SetTop, TypeOK
<1>3. /\ frames' \in Seq(Frame) /\ frames' # <<>> /\ Len(frames') = Len(frames) + 1
      /\ \A j \in 1..Len(frames) : frames'[j] = s[j]
      /\ frames'[Len(frames) + 1] = g
  BY <1>2, AppendProperties
<1>4. Top' = g /\ ~Idle'
  BY <1>1, <1>3 DEF Top, Idle
<1>5. StackShape'
  BY <1>1, <1>2, <1>3 DEF StackShape, Top
<1> QED
  BY <1>3, <1>4, <1>5

\* Returning to a caller leaves a stack that ends with the resumed caller.
LEMMA PopKeeps ==
  ASSUME TypeOK, StackShape, ~Idle, Top.kind \in NestedKind,
         NEW f \in Frame, f.kind = Caller.kind, f.ended = "running", frames' = PopTo(f)
  PROVE  frames' \in Seq(Frame) /\ StackShape' /\ ~Idle' /\ Top' = f
         /\ Len(frames') = Len(frames) - 1
<1> DEFINE n == Len(frames) - 2
           s == SubSeq(frames, 1, n)
<1>1. Len(frames) \in Nat /\ n \in Nat
  BY TopIsFrame, CallerIsFrame
<1>3. /\ s \in Seq(Frame) /\ Len(s) = n
      /\ \A i \in 1..n : s[i] = frames[i]
  <2>1. frames \in Seq(Frame) /\ n <= Len(frames)
    BY <1>1 DEF TypeOK
  <2> HIDE DEF n
  <2> QED
    BY <1>1, <2>1, PrefixProperties
<1> HIDE DEF s
<1>4. /\ frames' \in Seq(Frame) /\ frames' # <<>> /\ Len(frames') = n + 1
      /\ \A j \in 1..n : frames'[j] = s[j]
      /\ frames'[n + 1] = f
  <2>1. frames' = Append(s, f)
    BY DEF PopTo, s
  <2> QED
    BY <1>3, <2>1, AppendProperties
<1>5. Top' = f /\ ~Idle'
  BY <1>1, <1>4 DEF Top, Idle
<1>6. StackShape'
  BY <1>1, <1>3, <1>4 DEF StackShape, Caller
<1> QED
  BY <1>1, <1>4, <1>5, <1>6

-----------------------------------------------------------------------------
(* The guest's own steps. *)

\* The frame of a running guest after it paid for a step.
LEMMA ChargedTop ==
  ASSUME TypeOK, Running
  PROVE  /\ ~Idle /\ Top \in Frame /\ Top.ended = "running"
         /\ Charged(Top) \in Frame
         /\ Charged(Top).kind = Top.kind /\ Charged(Top).ended = "running"
         /\ Charged(Top).heard = Top.heard
<1>1. ~Idle /\ Top.ended = "running" /\ Top.gas > 0
  BY DEF Running
<1>2. Top \in Frame
  BY <1>1, TopIsFrame
<1>3. Top.gas - 1 \in 0..TxGas
  BY <1>1, <1>2, BoundAssumption DEF Frame
<1> QED
  BY <1>1, <1>2, <1>3 DEF Charged, Frame

\* A store disturbs neither the stack nor the cells.
LEMMA StoreStep ==
  ASSUME IInv, NEW k \in Key, NEW v \in Value, StorageStore(k, v)
  PROVE  IInv'
<1>1. TypeOK /\ StackShape /\ Running
  BY DEF IInv, StorageStore
<1>2. frames' \in Seq(Frame) /\ StackShape' /\ Top' = Charged(Top)
  BY <1>1, ChargedTop, SetTopKeeps DEF StorageStore
<1>3. TypeOK'
  BY <1>1, <1>2, ChargedTop DEF TypeOK, StorageStore, cells, Frame
<1>4. CellsFollowTop'
  BY <1>1, <1>2, ChargedTop DEF IInv, CellsFollowTop, CellsReport, StorageStore, cells
<1>5. VerdictFaithful'
  BY DEF IInv, VerdictFaithful, StorageStore
<1> QED
  BY <1>2, <1>3, <1>4, <1>5 DEF IInv

\* An event disturbs neither the stack nor the cells.
LEMMA LogStep ==
  ASSUME IInv, EmitLogEvent
  PROVE  IInv'
<1>1. TypeOK /\ StackShape /\ Running
  BY DEF IInv, EmitLogEvent
<1>2. frames' \in Seq(Frame) /\ StackShape' /\ Top' = Charged(Top)
  BY <1>1, ChargedTop, SetTopKeeps DEF EmitLogEvent
<1>3. events' \in 0..MaxEvents
  BY <1>1, BoundAssumption DEF TypeOK, EmitLogEvent
<1>4. TypeOK'
  BY <1>1, <1>2, <1>3 DEF TypeOK, EmitLogEvent, cells
<1>5. CellsFollowTop'
  BY <1>1, <1>2, ChargedTop DEF IInv, CellsFollowTop, CellsReport, EmitLogEvent, cells
<1>6. VerdictFaithful'
  BY DEF IInv, VerdictFaithful, EmitLogEvent
<1> QED
  BY <1>2, <1>4, <1>5, <1>6 DEF IInv

\* The frame of a guest that ends.
LEMMA EndedTop ==
  ASSUME TypeOK, StackShape, Running, NEW how \in Ending, NEW d \in Data, Ends(how, d)
  PROVE  /\ frames' \in Seq(Frame) /\ StackShape' /\ ~Idle
         /\ Top'.ended = how /\ Top'.out = d /\ Top'.heard = Top.heard
<1> DEFINE f == [Charged(Top) EXCEPT !.ended = how, !.out = d]
<1>1. /\ f \in Frame /\ f.kind = Top.kind
      /\ f.ended = how /\ f.out = d /\ f.heard = Top.heard
  BY ChargedTop DEF Frame
<1>2. frames' = SetTop(f)
  BY DEF Ends
<1> HIDE DEF f
<1>3. frames' \in Seq(Frame) /\ StackShape' /\ Top' = f
  BY <1>1, <1>2, ChargedTop, SetTopKeeps
<1> QED
  BY <1>1, <1>3, ChargedTop

\* finish leaves the cells saying that the last frame finished, with its data.
LEMMA FinishStep ==
  ASSUME IInv, NEW d \in Data, Finish(d)
  PROVE  IInv'
<1>1. TypeOK /\ StackShape /\ Running /\ Ends("finish", d)
  BY DEF IInv, Finish
<1>2. /\ frames' \in Seq(Frame) /\ StackShape'
      /\ Top'.ended = "finish" /\ Top'.out = d
  BY <1>1, EndedTop DEF Ending
<1>3. TypeOK'
  BY <1>1, <1>2 DEF TypeOK, Finish, SetReturnData, world
<1>4. CellsFollowTop'
  BY <1>2 DEF CellsFollowTop, CellsReport, Finish, SetReturnData
<1>5. VerdictFaithful'
  BY DEF IInv, VerdictFaithful, Finish
<1> QED
  BY <1>2, <1>3, <1>4, <1>5 DEF IInv

\* revert leaves the cells saying that the last frame reverted, with its data.
LEMMA RevertStep ==
  ASSUME IInv, NEW d \in Data, Revert(d)
  PROVE  IInv'
<1>1. TypeOK /\ StackShape /\ Running /\ Ends("revert", d)
  BY DEF IInv, Revert
<1>2. /\ frames' \in Seq(Frame) /\ StackShape'
      /\ Top'.ended = "revert" /\ Top'.out = d
  BY <1>1, EndedTop DEF Ending
<1>3. TypeOK'
  BY <1>1, <1>2 DEF TypeOK, Revert, world
<1>4. CellsFollowTop'
  BY <1>2 DEF CellsFollowTop, CellsReport, Revert
<1>5. VerdictFaithful'
  BY DEF IInv, VerdictFaithful, Revert
<1> QED
  BY <1>2, <1>3, <1>4, <1>5 DEF IInv

\* invalid leaves the status saying that the last frame reverted.
LEMMA InvalidStep ==
  ASSUME IInv, Invalid
  PROVE  IInv'
<1>1. TypeOK /\ StackShape /\ Running /\ Ends("invalid", NoData)
  BY DEF IInv, Invalid
<1>2. frames' \in Seq(Frame) /\ StackShape' /\ Top'.ended = "invalid"
  BY <1>1, EndedTop, DataAssumption DEF Ending
<1>3. TypeOK'
  BY <1>1, <1>2 DEF TypeOK, Invalid, world
<1>4. CellsFollowTop'
  BY <1>2 DEF CellsFollowTop, CellsReport, Invalid
<1>5. VerdictFaithful'
  BY DEF IInv, VerdictFaithful, Invalid
<1> QED
  BY <1>2, <1>3, <1>4, <1>5 DEF IInv

\* The ends that write no cell: self_destruct, a plain return and a trap.
LEMMA SilentEndStep ==
  ASSUME IInv, SelfDestruct \/ PlainReturn \/ Trap
  PROVE  IInv'
<1>1. /\ TypeOK /\ StackShape /\ Running
      /\ \E h \in {"destruct", "plain", "trap"} : Ends(h, NoData)
      /\ UNCHANGED <<world, cells, registry, verdict, aborted>>
  BY DEF IInv, SelfDestruct, PlainReturn, Trap
<1>2. PICK h \in {"destruct", "plain", "trap"} : Ends(h, NoData)
  BY <1>1
<1>3. /\ frames' \in Seq(Frame) /\ StackShape' /\ ~Idle
      /\ Top'.ended = h /\ Top'.heard = Top.heard
  BY <1>1, <1>2, EndedTop, DataAssumption DEF Ending
<1>4. TypeOK'
  BY <1>1, <1>3 DEF TypeOK, world, cells
<1>5. Top.ended = "running"
  BY <1>1 DEF Running
<1>6. CellsFollowTop'
  BY <1>1, <1>3, <1>5 DEF IInv, CellsFollowTop, CellsReport, cells
<1>7. VerdictFaithful'
  BY <1>1 DEF IInv, VerdictFaithful
<1> QED
  BY <1>3, <1>4, <1>6, <1>7 DEF IInv

\* Running out of gas is a trap: the cells stay as the guest last heard them.
LEMMA OutOfGasStep ==
  ASSUME IInv, OutOfGas
  PROVE  IInv'
<1> DEFINE f == [Top EXCEPT !.ended = "trap", !.out = NoData]
<1>1. TypeOK /\ StackShape /\ ~Idle /\ Top.ended = "running" /\ frames' = SetTop(f)
  BY DEF IInv, OutOfGas
<1>2. f \in Frame /\ f.kind = Top.kind /\ f.ended = "trap" /\ f.heard = Top.heard
  BY <1>1, TopIsFrame, DataAssumption DEF Frame, Ending
<1> HIDE DEF f
<1>3. frames' \in Seq(Frame) /\ StackShape' /\ Top' = f
  BY <1>1, <1>2, SetTopKeeps
<1>4. TypeOK'
  BY <1>1, <1>3 DEF TypeOK, OutOfGas, world, cells
<1>5. CellsFollowTop'
  BY <1>1, <1>2, <1>3 DEF IInv, CellsFollowTop, CellsReport, OutOfGas, cells
<1>6. VerdictFaithful'
  BY DEF IInv, VerdictFaithful, OutOfGas
<1> QED
  BY <1>3, <1>4, <1>5, <1>6 DEF IInv

-----------------------------------------------------------------------------
(* Calls and creations. *)

\* The frame of a guest that got its answer, and that may have heard data.
LEMMA AnsweredFrame ==
  ASSUME NEW f \in Frame, NEW b \in BOOLEAN, NEW d \in Data
  PROVE  /\ Answered(f, b) \in Frame
         /\ Answered(f, b).kind = f.kind /\ Answered(f, b).ended = f.ended
         /\ Answered(f, b).heard = f.heard
         /\ [Answered(f, b) EXCEPT !.heard = d] \in Frame
         /\ [Answered(f, b) EXCEPT !.heard = d].kind = f.kind
         /\ [Answered(f, b) EXCEPT !.heard = d].ended = f.ended
         /\ [Answered(f, b) EXCEPT !.heard = d].heard = d
BY DEF Answered, Frame

\* The frame of a new callee is a frame.
LEMMA NewFrameIsFrame ==
  ASSUME NEW kind \in Kind, NEW addr \in Address, NEW caller \in Address,
         NEW value \in Value, NEW code \in Code, NEW image \in Code
  PROVE  /\ NewFrame(kind, addr, caller, value, code, image) \in Frame
         /\ NewFrame(kind, addr, caller, value, code, image).kind = kind
         /\ NewFrame(kind, addr, caller, value, code, image).ended = "running"
         /\ NewFrame(kind, addr, caller, value, code, image).heard = Nothing
<1>1. TxGas \in 0..TxGas
  BY BoundAssumption
<1> QED
  BY <1>1, DataAssumption DEF NewFrame, Frame

\* A step that changes nothing but the last frame, which keeps running and has
\* heard what it had heard.
LEMMA QuietStep ==
  ASSUME IInv, Running, NEW f \in Frame, f.kind = Top.kind, f.ended = "running",
         f.heard = Top.heard, frames' = SetTop(f),
         UNCHANGED <<world, cells, verdict, aborted>>,
         registry' \in [Address -> Code \union {NoCode}]
  PROVE  IInv'
<1>1. TypeOK /\ StackShape /\ ~Idle /\ Top.ended = "running"
  BY DEF IInv, Running
<1>2. frames' \in Seq(Frame) /\ StackShape' /\ Top' = f
  BY <1>1, SetTopKeeps
<1>3. TypeOK'
  BY <1>1, <1>2 DEF TypeOK, world, cells
<1>4. CellsFollowTop'
  BY <1>1, <1>2 DEF IInv, CellsFollowTop, CellsReport, cells
<1>5. VerdictFaithful'
  BY DEF IInv, VerdictFaithful
<1> QED
  BY <1>2, <1>3, <1>4, <1>5 DEF IInv

\* A step that starts a callee and changes nothing else.
LEMMA EnterStep ==
  ASSUME IInv, Running, NEW g \in Frame, g.kind \in NestedKind,
         g.ended = "running", g.heard = Nothing,
         frames' = Append(SetTop(Charged(Top)), g),
         UNCHANGED <<world, cells, registry, verdict, aborted>>
  PROVE  IInv'
<1>1. TypeOK /\ StackShape
  BY DEF IInv
<1>2. frames' \in Seq(Frame) /\ StackShape' /\ Top' = g
  BY <1>1, ChargedTop, PushKeeps
<1>3. TypeOK'
  BY <1>1, <1>2 DEF TypeOK, world, cells
<1>4. CellsFollowTop'
  BY <1>2 DEF CellsFollowTop, CellsReport
<1>5. VerdictFaithful'
  BY DEF IInv, VerdictFaithful
<1> QED
  BY <1>2, <1>3, <1>4, <1>5 DEF IInv

\* Each of the four calls starts a callee or answers in place.
LEMMA CallStep ==
  ASSUME IInv, NEW kind \in NestedKind, NEW target \in Address, NEW addr \in Address,
         NEW value \in Value, CallInto(kind, target, addr, value)
  PROVE  IInv'
<1>1. TypeOK /\ Running /\ UNCHANGED <<world, cells, registry, verdict, aborted>>
  BY DEF IInv, CallInto
<1>2. Charged(Top) \in Frame /\ Top \in Frame
  BY <1>1, ChargedTop
<1>3. TargetCode(target) \in Code
  BY <1>1, <1>2 DEF TargetCode, TypeOK, Frame
<1>4. CASE frames' = Append(SetTop(Charged(Top)),
                NewFrame(kind, addr, Top.caller, value, TargetCode(target), TargetCode(target)))
  <2>1. Top.caller \in Address /\ kind \in Kind
    BY <1>2 DEF Frame, Kind
  <2> QED
    BY <1>1, <1>3, <1>4, <2>1, NewFrameIsFrame, EnterStep
<1>5. CASE frames' = SetTop(Answered(Charged(Top), FALSE))
  <2>1. registry' \in [Address -> Code \union {NoCode}]
    BY <1>1 DEF TypeOK
  <2>2. UNCHANGED <<world, cells, verdict, aborted>>
    BY <1>1
  <2>3. /\ Answered(Charged(Top), FALSE) \in Frame
        /\ Answered(Charged(Top), FALSE).kind = Top.kind
        /\ Answered(Charged(Top), FALSE).ended = "running"
        /\ Answered(Charged(Top), FALSE).heard = Top.heard
    BY <1>1, ChargedTop, AnsweredFrame, DataAssumption
  <2> QED
    BY <1>1, <1>5, <2>1, <2>2, <2>3, QuietStep
<1> QED
  BY <1>4, <1>5 DEF CallInto

\* A call whose offsets do not validate answers in place.
LEMMA CallRejectedStep ==
  ASSUME IInv, CallRejected
  PROVE  IInv'
<1> DEFINE f == [Charged(Top) EXCEPT !.ok = "no", !.told = "one"]
<1>1. /\ TypeOK /\ Running /\ UNCHANGED <<world, cells, verdict, aborted>>
      /\ frames' = SetTop(f)
  BY DEF IInv, CallRejected
<1>2. registry' \in [Address -> Code \union {NoCode}]
  BY <1>1 DEF TypeOK, CallRejected
<1>3. f \in Frame /\ f.kind = Top.kind /\ f.ended = "running" /\ f.heard = Top.heard
  BY <1>1, ChargedTop DEF Frame
<1> HIDE DEF f
<1> QED
  BY <1>1, <1>2, <1>3, QuietStep

\* What the answer to a creation that ran no constructor leaves of the frame.
LEMMA AnsweredTop ==
  ASSUME TypeOK, Running, NEW b \in BOOLEAN
  PROVE  /\ Answered(Charged(Top), b) \in Frame
         /\ Answered(Charged(Top), b).kind = Top.kind
         /\ Answered(Charged(Top), b).ended = "running"
         /\ Answered(Charged(Top), b).heard = Top.heard
BY ChargedTop, AnsweredFrame, DataAssumption

\* A creation without code answers in place.
LEMMA CreateOfNothingStep ==
  ASSUME IInv, CreateRefused
  PROVE  IInv'
<1>1. /\ TypeOK /\ Running /\ UNCHANGED <<world, cells, verdict, aborted>>
      /\ frames' = SetTop(Answered(Charged(Top), FALSE))
  BY DEF IInv, CreateRefused
<1>2. registry' \in [Address -> Code \union {NoCode}]
  BY <1>1 DEF TypeOK, CreateRefused
<1> QED
  BY <1>1, <1>2, AnsweredTop, QuietStep

\* A creation without a constructor registers and answers in place.
LEMMA CreateWithoutConstructorStep ==
  ASSUME IInv, NEW c \in Code, NEW isCreate2 \in BOOLEAN,
         CreateWithoutConstructor(c, isCreate2)
  PROVE  IInv'
<1>1. /\ TypeOK /\ Running /\ UNCHANGED <<world, cells, verdict, aborted>>
      /\ frames' = SetTop(Answered(Charged(Top), TRUE))
  BY DEF IInv, CreateWithoutConstructor
<1>2. registry' \in [Address -> Code \union {NoCode}]
  BY <1>1 DEF TypeOK, CreateWithoutConstructor, Register
<1> QED
  BY <1>1, <1>2, AnsweredTop, QuietStep

\* A creation starts its constructor, or is refused and empties the cells.
LEMMA CreateWithConstructorStep ==
  ASSUME IInv, NEW c \in Code, NEW v \in Value, NEW isCreate2 \in BOOLEAN,
         CreateWithConstructor(c, v, isCreate2)
  PROVE  IInv'
<1> DEFINE init == StripPrefix[c]
           g == NewFrame("create", NewAddress(isCreate2), Top.addr, v, init, c)
           f == [Answered(Charged(Top), FALSE) EXCEPT !.heard = NoData]
<1>1. /\ TypeOK /\ StackShape /\ Running /\ UNCHANGED <<world, registry, verdict, aborted>>
      /\ c \notin ShortCode \union {EmptyCode}
  BY DEF IInv, CreateWithConstructor
<1>2. init \in Code
  BY <1>1, CodeAssumption
<1>3. CASE frames' = Append(SetTop(Charged(Top)), g) /\ UNCHANGED cells
  <2>1. Top.addr \in Address /\ NewAddress(isCreate2) \in Address
    BY <1>1, ChargedTop, AddressAssumption DEF Frame, NewAddress
  <2>2. /\ g \in Frame /\ g.kind \in NestedKind /\ g.ended = "running"
        /\ g.heard = Nothing
    BY <1>2, <2>1, NewFrameIsFrame DEF Kind, NestedKind
  <2>3. UNCHANGED <<world, cells, registry, verdict, aborted>>
    BY <1>1, <1>3
  <2> QED
    BY <1>1, <1>3, <2>2, <2>3, EnterStep
<1>4. CASE frames' = SetTop(f) /\ SetReturnData(NoData)
  <2>1. f \in Frame /\ f.kind = Top.kind /\ f.ended = "running" /\ f.heard = NoData
    BY <1>1, ChargedTop, AnsweredFrame, DataAssumption
  <2> HIDE DEF f
  <2>2. frames' \in Seq(Frame) /\ StackShape' /\ Top' = f
    BY <1>1, <1>4, <2>1, ChargedTop, SetTopKeeps
  <2>3. TypeOK'
    BY <1>1, <1>4, <2>2, DataAssumption DEF TypeOK, world, SetReturnData
  <2>4. CellsFollowTop'
    BY <1>4, <2>1, <2>2 DEF CellsFollowTop, CellsReport, SetReturnData
  <2>5. VerdictFaithful'
    BY <1>1 DEF IInv, VerdictFaithful
  <2> QED
    BY <2>2, <2>3, <2>4, <2>5 DEF IInv
<1> QED
  BY <1>3, <1>4 DEF CreateWithConstructor, Creator

\* The panic changes no cell.
LEMMA CreateOfShortCodeStep ==
  ASSUME IInv, NEW c \in Code, CreateOfShortCode(c)
  PROVE  IInv'
<1>1. /\ UNCHANGED <<frames, world, cells, registry, verdict>> /\ aborted' = TRUE
  BY DEF CreateOfShortCode
<1> QED
  BY <1>1 DEF IInv, TypeOK, StackShape, CellsFollowTop, CellsReport, VerdictFaithful,
              Idle, Top, world, cells

-----------------------------------------------------------------------------
(* Returns. *)

\* After a return, the cells say what the caller has just heard.
LEMMA DeliverStep ==
  ASSUME IInv, ~Idle, Top.kind \in NestedKind,
         NEW r, r.ok \in BOOLEAN, r.data \in Data, Deliver(r),
         registry' \in [Address -> Code \union {NoCode}],
         UNCHANGED <<world, verdict, aborted>>
  PROVE  IInv'
<1> DEFINE f == [Answered(Caller, r.ok) EXCEPT !.heard = r.data]
<1>1. TypeOK /\ StackShape
  BY DEF IInv
<1>2. /\ f \in Frame /\ f.kind = Caller.kind /\ f.ended = "running"
      /\ f.heard = r.data
  BY <1>1, CallerIsFrame, AnsweredFrame
<1>3. frames' = PopTo(f)
  BY DEF Deliver
<1> HIDE DEF f
<1>4. frames' \in Seq(Frame) /\ StackShape' /\ Top' = f
  BY <1>1, <1>2, <1>3, PopKeeps
<1>5. TypeOK'
  BY <1>1, <1>4 DEF TypeOK, world, Deliver, SetReturnData
<1>6. CellsFollowTop'
  BY <1>2, <1>4 DEF CellsFollowTop, CellsReport, Deliver, SetReturnData
<1>7. VerdictFaithful'
  BY DEF IInv, VerdictFaithful
<1> QED
  BY <1>4, <1>5, <1>6, <1>7 DEF IInv

\* What the executor returns has the type of a result.
LEMMA ResultTypes ==
  ASSUME TypeOK
  PROVE  /\ ExecutionResult.ok \in BOOLEAN /\ ExecutionResult.data \in Data
         /\ ExecutionResult.reverted \in BOOLEAN
         /\ DeploymentResult.ok \in BOOLEAN /\ DeploymentResult.data \in Data
BY DataAssumption DEF TypeOK, ExecutionResult, DeploymentResult

\* The return from a call preserves the inductive invariant.
LEMMA ReturnFromCallStep ==
  ASSUME IInv, ReturnFromCall
  PROVE  IInv'
<1>1. TypeOK /\ ~Idle /\ Top.kind \in NestedKind
  BY DEF IInv, ReturnFromCall, Ended
<1>2. registry' \in [Address -> Code \union {NoCode}]
  BY <1>1 DEF TypeOK, ReturnFromCall
<1> QED
  BY <1>1, <1>2, ResultTypes, DeliverStep DEF ReturnFromCall

\* The return from a constructor preserves the inductive invariant.
LEMMA ReturnFromCreateStep ==
  ASSUME IInv, ReturnFromCreate
  PROVE  IInv'
<1>1. TypeOK /\ ~Idle /\ Top.kind \in NestedKind
  BY DEF IInv, ReturnFromCreate, Ended, NestedKind
<1>2. Top \in Frame
  BY <1>1, TopIsFrame
<1>3. registry' \in [Address -> Code \union {NoCode}]
  BY <1>1, <1>2 DEF TypeOK, ReturnFromCreate, Register, Frame
<1> QED
  BY <1>1, <1>3, ResultTypes, DeliverStep DEF ReturnFromCreate

\* The empty stack satisfies what is said of the last frame.
LEMMA EmptyStack ==
  ASSUME frames' = <<>>
  PROVE  frames' \in Seq(Frame) /\ StackShape' /\ CellsFollowTop'
BY EmptySeq DEF StackShape, CellsFollowTop, Idle

\* The verdict on a top-level call is what the cells say of its guest.
LEMMA ReturnFromTransactStep ==
  ASSUME IInv, ReturnFromTransact
  PROVE  IInv'
<1>1. /\ TypeOK /\ ~Idle /\ Top.kind = "transact" /\ Top.ended # "running"
      /\ CellsReport(Top)
  BY DEF IInv, CellsFollowTop, ReturnFromTransact, Ended
<1>2. Top \in Frame
  BY <1>1, TopIsFrame
<1>3. frames' = <<>> /\ verdict' = Verdict(ExecutionResult, Top)
  BY DEF ReturnFromTransact
<1>4. verdict' = [ok |-> ExecutionResult.ok, data |-> ExecutionResult.data,
                  reverted |-> ExecutionResult.reverted,
                  ended |-> Top.ended, out |-> Top.out, kind |-> "transact"]
  BY <1>1, <1>3 DEF Verdict
<1>5. TypeOK'
  BY <1>1, <1>2, <1>3, <1>4, EmptyStack, ResultTypes
     DEF TypeOK, ReturnFromTransact, world, cells, Frame
<1>6. VerdictFaithful'
  BY <1>1, <1>3 DEF VerdictFaithful, Verdict, ExecutionResult, CellsReport
<1> QED
  BY <1>3, <1>5, <1>6, EmptyStack DEF IInv

\* The return from a top-level deployment preserves the inductive invariant.
LEMMA ReturnFromDeployStep ==
  ASSUME IInv, ReturnFromDeploy
  PROVE  IInv'
<1>1. TypeOK /\ ~Idle /\ Top.kind = "deploy" /\ Top.ended # "running"
  BY DEF IInv, ReturnFromDeploy, Ended
<1>2. Top \in Frame
  BY <1>1, TopIsFrame
<1>3. /\ frames' = <<>>
      /\ verdict' = [ok |-> DeploymentResult.ok, data |-> NoData, reverted |-> FALSE,
                     ended |-> Top.ended, out |-> Top.out, kind |-> "deploy"]
  BY <1>1 DEF ReturnFromDeploy, Verdict, DeploymentResult
<1>4. TypeOK'
  <2>1. DeploymentResult.ok \in BOOLEAN
    BY <1>1, ResultTypes
  <2>2. Top.ended \in {"none", "refused"} \union Ending /\ Top.out \in Data
    BY <1>1, <1>2 DEF Frame
  <2>3. verdict' \in [ok : BOOLEAN, data : Data, reverted : BOOLEAN,
                      ended : {"none", "refused"} \union Ending, out : Data,
                      kind : {"transact", "deploy"}]
    BY <1>3, <2>1, <2>2, DataAssumption
  <2> QED
    BY <1>1, <1>3, <2>3, EmptyStack DEF TypeOK, ReturnFromDeploy, world, cells
<1>5. VerdictFaithful'
  BY <1>3 DEF VerdictFaithful
<1> QED
  BY <1>3, <1>4, <1>5, EmptyStack DEF IInv

\* A new top-level call starts a frame of its own or is refused.
LEMMA TopLevelStep ==
  ASSUME IInv, NEW kind \in {"transact", "deploy"}, NEW ctx \in Contexts,
         TopLevel(kind, ctx)
  PROVE  IInv'
<1>1. TypeOK /\ Idle /\ UNCHANGED <<world, cells, registry, aborted>>
  BY DEF IInv, TopLevel
<1>2. ctx.addr \in Address /\ ctx.caller \in Address /\ ctx.value \in Value /\ ctx.code \in Code
  BY AddressAssumption
<1> DEFINE g == NewFrame(kind, ctx.addr, ctx.caller, ctx.value, ctx.code, ctx.code)
<1>3. NoVerdict.kind = "transact" /\ NoVerdict.ended = "none"
      /\ NoVerdict.ok = FALSE /\ NoVerdict.reverted = FALSE
  BY DEF NoVerdict
<1>4. CASE frames' = <<g>> /\ verdict' = NoVerdict
  <2>1. /\ g \in Frame /\ g.kind = kind /\ g.ended = "running" /\ g.heard = Nothing
    BY <1>2, NewFrameIsFrame, BoundAssumption DEF Kind
  <2> HIDE DEF g
  <2>2. frames' \in Seq(Frame) /\ Len(frames') = 1 /\ frames'[1] = g
    BY <1>4, <2>1
  <2>3. Top' = g
    BY <2>2 DEF Top
  <2>4. StackShape'
    BY <2>1, <2>2 DEF StackShape, NestedKind
  <2>5. TypeOK'
    BY <1>1, <1>4, <2>2, DataAssumption DEF TypeOK, world, cells, NoVerdict
  <2>6. CellsFollowTop'
    BY <2>1, <2>3 DEF CellsFollowTop, CellsReport
  <2>7. VerdictFaithful'
    BY <1>3, <1>4 DEF VerdictFaithful
  <2> QED
    BY <2>4, <2>5, <2>6, <2>7 DEF IInv
<1>5. CASE UNCHANGED frames /\ verdict' = [NoVerdict EXCEPT !.ended = "refused", !.kind = kind]
  <2>1. TypeOK'
    BY <1>1, <1>5, DataAssumption DEF TypeOK, world, cells, NoVerdict
  <2>2. StackShape' /\ CellsFollowTop'
    BY <1>1, <1>5 DEF IInv, StackShape, CellsFollowTop, Idle
  <2>3. VerdictFaithful'
    BY <1>5 DEF VerdictFaithful, NoVerdict
  <2> QED
    BY <2>1, <2>2, <2>3 DEF IInv
<1> QED
  BY <1>4, <1>5 DEF TopLevel

-----------------------------------------------------------------------------
(* The accounts of the frames. *)

\* Two frames act for the same account, caller and value, by the same kind of call.
SameAccount(f, g) ==
  f.kind = g.kind /\ f.addr = g.addr /\ f.caller = g.caller /\ f.value = g.value

\* The frames that stay keep their accounts.
LEMMA AccountsOfRest ==
  ASSUME Accounts, Len(frames) \in Nat, Len(frames') \in Nat,
         Len(frames') <= Len(frames),
         \A i \in 1..Len(frames') : SameAccount(frames'[i], frames[i])
  PROVE  Accounts'
<1>1. ASSUME NEW i \in 1..Len(frames'), NEW j \in 1..(i - 1)
      PROVE  /\ i \in 1..Len(frames) /\ j \in 1..Len(frames')
             /\ \A kinds : Entered(j, i, kinds)' <=> Entered(j, i, kinds)
             /\ \A kinds : Entered(j, i - 1, kinds)' <=> Entered(j, i - 1, kinds)
             /\ SameAccount(frames'[i], frames[i]) /\ SameAccount(frames'[j], frames[j])
  <2>1. i \in 1..Len(frames) /\ j \in 1..Len(frames')
    OBVIOUS
  <2>2. \A k \in (j + 1)..i : k \in 1..Len(frames')
    BY <2>1
  <2>3. \A k \in (j + 1)..i : frames'[k].kind = frames[k].kind
    BY <2>2 DEF SameAccount
  <2>4. \A k \in (j + 1)..(i - 1) : k \in (j + 1)..i
    BY <2>1
  <2> QED
    BY <2>1, <2>3, <2>4 DEF Entered
<1>2. DelegationKeepsAccount'
  BY <1>1 DEF Accounts, DelegationKeepsAccount, SameAccount
<1>3. CreationsPlaced'
  BY DEF Accounts, CreationsPlaced, SameAccount
<1> QED
  BY <1>2, <1>3 DEF Accounts

\* A callee that delegated code runs in takes over the account of its caller, which
\* is the creator of a contract.
LEMMA AccountsOfCallee ==
  ASSUME Accounts, Len(frames) \in Nat \ {0}, Len(frames') = Len(frames) + 1,
         \A i \in 1..Len(frames) : SameAccount(frames'[i], frames[i]),
         NEW g, frames'[Len(frames) + 1] = g,
         g.kind \in {"callcode", "delegate"} => g.addr = Top.addr /\ g.caller = Top.caller,
         g.kind = "delegate" => g.value = Top.value,
         g.kind = "create" =>
           g.addr \in {CreateAddress, Create2Address} /\ g.caller = Top.addr
  PROVE  Accounts'
<1> DEFINE n == Len(frames)
<1>1. ASSUME NEW i \in 1..n, NEW j \in 1..(i - 1)
      PROVE  /\ Entered(j, i, {"callcode", "delegate"})' =>
                  frames'[i].addr = frames'[j].addr /\ frames'[i].caller = frames'[j].caller
             /\ Entered(j, i, {"delegate"})' => frames'[i].value = frames'[j].value
             /\ Entered(j, i - 1, {"callcode", "delegate"})' /\ frames'[i].kind = "create" =>
                  frames'[i].caller = frames'[j].addr
  <2>1. j \in 1..n /\ \A k \in (j + 1)..i : k \in 1..n
    OBVIOUS
  <2>2. SameAccount(frames'[i], frames[i]) /\ SameAccount(frames'[j], frames[j])
    BY <2>1
  <2>3. \A k \in (j + 1)..i : frames'[k].kind = frames[k].kind
    BY <2>1 DEF SameAccount
  <2>4. \A k \in (j + 1)..(i - 1) : k \in (j + 1)..i
    BY <2>1
  <2>5. \A kinds : /\ Entered(j, i, kinds)' <=> Entered(j, i, kinds)
                   /\ Entered(j, i - 1, kinds)' <=> Entered(j, i - 1, kinds)
    BY <2>3, <2>4 DEF Entered
  <2> QED
    BY <2>1, <2>2, <2>5 DEF Accounts, DelegationKeepsAccount, SameAccount
<1>2. ASSUME NEW i, i = n + 1, NEW j \in 1..n
      PROVE  /\ Entered(j, i, {"callcode", "delegate"})' =>
                  g.addr = frames'[j].addr /\ g.caller = frames'[j].caller
             /\ Entered(j, i, {"delegate"})' => g.value = frames'[j].value
             /\ Entered(j, i - 1, {"callcode", "delegate"})' /\ g.kind = "create" =>
                  g.caller = frames'[j].addr
  <2>1. i \in (j + 1)..i /\ n \in 1..n /\ frames'[i] = g
    BY <1>2
  <2>2. \A kinds : Entered(j, i, kinds)' => g.kind \in kinds
    BY <2>1 DEF Entered
  <2>3. SameAccount(frames'[j], frames[j])
    OBVIOUS
  <2>4. CASE j = n
    BY <2>2, <2>3, <2>4 DEF SameAccount, Top
  <2>5. CASE j # n
    <3>1. j \in 1..(n - 1) /\ \A k \in (j + 1)..n : k \in 1..n /\ k \in (j + 1)..i
      BY <1>2, <2>5
    <3>2. \A k \in (j + 1)..n : frames'[k].kind = frames[k].kind
      BY <3>1 DEF SameAccount
    <3>3. \A kinds : /\ Entered(j, i, kinds)' => Entered(j, n, kinds)
                     /\ Entered(j, i - 1, kinds)' => Entered(j, n, kinds)
      BY <1>2, <3>1, <3>2 DEF Entered
    <3>4. /\ Entered(j, n, {"callcode", "delegate"}) =>
               frames[n].addr = frames[j].addr /\ frames[n].caller = frames[j].caller
          /\ Entered(j, n, {"delegate"}) => frames[n].value = frames[j].value
      BY <2>1, <3>1 DEF Accounts, DelegationKeepsAccount
    <3> QED
      BY <2>2, <2>3, <3>3, <3>4 DEF SameAccount, Top
  <2> QED
    BY <2>4, <2>5
<1>3. ASSUME NEW i \in 1..Len(frames'), NEW j \in 1..(i - 1)
      PROVE  /\ Entered(j, i, {"callcode", "delegate"})' =>
                  frames'[i].addr = frames'[j].addr /\ frames'[i].caller = frames'[j].caller
             /\ Entered(j, i, {"delegate"})' => frames'[i].value = frames'[j].value
             /\ Entered(j, i - 1, {"callcode", "delegate"})' /\ frames'[i].kind = "create" =>
                  frames'[i].caller = frames'[j].addr
  <2>1. CASE i = n + 1
    <3>1. j \in 1..n /\ frames'[i] = g
      BY <2>1
    <3> QED
      BY <1>2, <2>1, <3>1
  <2>2. CASE i # n + 1
    <3>1. i \in 1..n
      BY <2>2
    <3> QED
      BY <1>1, <3>1
  <2> QED
    BY <2>1, <2>2
<1>4. DelegationKeepsAccount'
  BY <1>3 DEF DelegationKeepsAccount
<1>5. CreationsPlaced'
  BY DEF Accounts, CreationsPlaced, SameAccount
<1> QED
  BY <1>4, <1>5 DEF Accounts

\* Replacing the last frame by one of the same account keeps all accounts.
LEMMA SetTopAccounts ==
  ASSUME TypeOK, Accounts, ~Idle, NEW f \in Frame, SameAccount(f, Top),
         frames' = SetTop(f)
  PROVE  Accounts'
<1>1. Len(frames) \in Nat \ {0} /\ Len(frames) \in 1..Len(frames)
  BY TopIsFrame
<1>2. /\ Len(frames') = Len(frames)
      /\ \A j \in 1..Len(frames) : frames'[j] = IF j = Len(frames) THEN f ELSE frames[j]
  BY <1>1, ExceptSeq DEF SetTop, TypeOK
<1>3. \A i \in 1..Len(frames') : SameAccount(frames'[i], frames[i])
  BY <1>1, <1>2 DEF SameAccount, Top
<1> QED
  BY <1>1, <1>2, <1>3, AccountsOfRest

\* A callee is put on the stack.
LEMMA PushAccounts ==
  ASSUME TypeOK, Accounts, ~Idle, NEW f \in Frame, SameAccount(f, Top),
         NEW g \in Frame, frames' = Append(SetTop(f), g),
         g.kind \in {"callcode", "delegate"} => g.addr = Top.addr /\ g.caller = Top.caller,
         g.kind = "delegate" => g.value = Top.value,
         g.kind = "create" =>
           g.addr \in {CreateAddress, Create2Address} /\ g.caller = Top.addr
  PROVE  Accounts'
<1> DEFINE s == SetTop(f)
<1>1. Len(frames) \in Nat \ {0} /\ Len(frames) \in 1..Len(frames)
  BY TopIsFrame
<1>2. /\ s \in Seq(Frame) /\ Len(s) = Len(frames)
      /\ \A j \in 1..Len(frames) : s[j] = IF j = Len(frames) THEN f ELSE frames[j]
  BY <1>1, ExceptSeq DEF SetTop, TypeOK
<1>3. /\ Len(frames') = Len(frames) + 1
      /\ \A j \in 1..Len(frames) : frames'[j] = s[j]
      /\ frames'[Len(frames) + 1] = g
  BY <1>2, AppendProperties
<1>4. \A i \in 1..Len(frames) : SameAccount(frames'[i], frames[i])
  BY <1>1, <1>2, <1>3 DEF SameAccount, Top
<1> QED
  BY <1>1, <1>3, <1>4, AccountsOfCallee

\* The callee's frame is gone and the caller's acts for the account it had.
LEMMA PopAccounts ==
  ASSUME TypeOK, StackShape, Accounts, ~Idle, Top.kind \in NestedKind,
         NEW f \in Frame, SameAccount(f, Caller), frames' = PopTo(f)
  PROVE  Accounts'
<1> DEFINE n == Len(frames) - 2
           s == SubSeq(frames, 1, n)
<1>1. Len(frames) \in Nat /\ n \in Nat
  BY TopIsFrame, CallerIsFrame
<1>2. /\ s \in Seq(Frame) /\ Len(s) = n
      /\ \A i \in 1..n : s[i] = frames[i]
  <2>1. frames \in Seq(Frame) /\ n <= Len(frames)
    BY <1>1 DEF TypeOK
  <2> HIDE DEF n
  <2> QED
    BY <1>1, <2>1, PrefixProperties
<1> HIDE DEF s
<1>3. /\ Len(frames') = n + 1
      /\ \A j \in 1..n : frames'[j] = s[j]
      /\ frames'[n + 1] = f
  <2>1. frames' = Append(s, f)
    BY DEF PopTo, s
  <2> QED
    BY <1>2, <2>1, AppendProperties
<1>4. ASSUME NEW i \in 1..Len(frames') PROVE SameAccount(frames'[i], frames[i])
  <2>1. CASE i = n + 1
    <3>1. i = Len(frames) - 1
      BY <1>1, <2>1
    <3> QED
      BY <1>3, <2>1, <3>1 DEF Caller
  <2>2. CASE i # n + 1
    <3>1. i \in 1..n
      BY <1>1, <1>3, <2>2
    <3> QED
      BY <1>2, <1>3, <3>1 DEF SameAccount
  <2> QED
    BY <2>1, <2>2
<1> QED
  BY <1>1, <1>3, <1>4, AccountsOfRest

\* What a step makes of the last frame or of its caller acts for the account the
\* frame acted for.
LEMMA SameAfter ==
  ASSUME NEW f \in Frame, NEW b \in BOOLEAN
  PROVE  /\ SameAccount(Charged(f), f) /\ SameAccount(Answered(f, b), f)
         /\ SameAccount(Answered(Charged(f), b), f)
         /\ \A d : SameAccount([Answered(Charged(f), b) EXCEPT !.heard = d], f)
         /\ \A d : SameAccount([Answered(f, b) EXCEPT !.heard = d], f)
         /\ \A how, d : SameAccount([Charged(f) EXCEPT !.ended = how, !.out = d], f)
         /\ SameAccount([Charged(f) EXCEPT !.ok = "no", !.told = "one"], f)
         /\ \A how : SameAccount([f EXCEPT !.ended = how, !.out = NoData], f)
BY DEF SameAccount, Charged, Answered, Frame

\* A guest's step that starts no callee and ends none.
LEMMA QuietAccounts ==
  ASSUME IInv, Accounts, Running,
         \/ frames' = SetTop(Charged(Top))
         \/ \E b \in BOOLEAN : frames' = SetTop(Answered(Charged(Top), b))
         \/ frames' = SetTop([Charged(Top) EXCEPT !.ok = "no", !.told = "one"])
         \/ frames' = SetTop([Answered(Charged(Top), FALSE) EXCEPT !.heard = NoData])
         \/ \E how \in Ending, d \in Data : Ends(how, d)
  PROVE  Accounts'
<1>1. TypeOK /\ ~Idle /\ Top \in Frame /\ Charged(Top) \in Frame
  BY ChargedTop DEF IInv
<1>2. ASSUME NEW f \in Frame, SameAccount(f, Top), frames' = SetTop(f) PROVE Accounts'
  BY <1>1, <1>2, SetTopAccounts
<1>3. CASE frames' = SetTop(Charged(Top))
  BY <1>1, <1>2, <1>3, SameAfter
<1>4. ASSUME NEW b \in BOOLEAN, frames' = SetTop(Answered(Charged(Top), b)) PROVE Accounts'
  BY <1>1, <1>2, <1>4, SameAfter, AnsweredFrame, DataAssumption
<1>5. CASE frames' = SetTop([Charged(Top) EXCEPT !.ok = "no", !.told = "one"])
  <2> DEFINE f == [Charged(Top) EXCEPT !.ok = "no", !.told = "one"]
  <2>1. f \in Frame /\ SameAccount(f, Top)
    BY <1>1, SameAfter DEF Frame
  <2> QED
    BY <1>2, <1>5, <2>1
<1>6. CASE frames' = SetTop([Answered(Charged(Top), FALSE) EXCEPT !.heard = NoData])
  <2> DEFINE f == [Answered(Charged(Top), FALSE) EXCEPT !.heard = NoData]
  <2>1. f \in Frame /\ SameAccount(f, Top)
    BY <1>1, SameAfter, AnsweredFrame, DataAssumption
  <2> QED
    BY <1>2, <1>6, <2>1
<1>7. ASSUME NEW how \in Ending, NEW d \in Data, Ends(how, d) PROVE Accounts'
  <2> DEFINE f == [Charged(Top) EXCEPT !.ended = how, !.out = d]
  <2>1. f \in Frame /\ SameAccount(f, Top)
    BY <1>1, SameAfter DEF Frame
  <2>2. frames' = SetTop(f)
    BY <1>7 DEF Ends
  <2> QED
    BY <1>2, <2>1, <2>2
<1> QED
  BY <1>3, <1>4, <1>5, <1>6, <1>7

\* Only the kinds that delegate put a callee into the caller's account.
LEMMA CallAccounts ==
  ASSUME IInv, Accounts, NEW t \in Target, NEW v \in Value,
         CallContract(t, v) \/ CallCode(t, v) \/ CallDelegate(t) \/ CallStatic(t)
  PROVE  Accounts'
<1>1. Running
  BY DEF CallContract, CallCode, CallDelegate, CallStatic, CallInto
<1>2. TypeOK /\ ~Idle /\ Top \in Frame /\ Charged(Top) \in Frame
  BY <1>1, ChargedTop DEF IInv
<1>3. Top.addr \in Address /\ Top.caller \in Address /\ Top.value \in Value
      /\ t \in Address /\ Zero \in Value
  BY <1>2, AddressAssumption, WordAssumption DEF Frame
<1>4. ASSUME NEW kind \in {"call", "callcode", "delegate", "static"},
             NEW addr \in Address, NEW value \in Value, CallInto(kind, t, addr, value),
             kind \in {"callcode", "delegate"} => addr = Top.addr,
             kind = "delegate" => value = Top.value
      PROVE  Accounts'
  <2> DEFINE c == TargetCode(t)
             g == NewFrame(kind, addr, Top.caller, value, c, c)
  <2>1. c \in Code
    BY <1>2, <1>3 DEF TargetCode, TypeOK, Frame
  <2>2. CASE frames' = Append(SetTop(Charged(Top)), g)
    <3>1. kind \in Kind
      BY DEF Kind, NestedKind
    <3>2. /\ g \in Frame /\ g.kind = kind /\ g.addr = addr /\ g.caller = Top.caller
          /\ g.value = value
      BY <1>3, <2>1, <3>1, NewFrameIsFrame DEF NewFrame
    <3> HIDE DEF g
    <3> QED
      BY <1>2, <1>4, <2>2, <3>2, SameAfter, PushAccounts
  <2>3. CASE frames' = SetTop(Answered(Charged(Top), FALSE))
    BY <1>1, <2>3, QuietAccounts
  <2> QED
    BY <1>4, <2>2, <2>3 DEF CallInto
<1> QED
  BY <1>3, <1>4 DEF CallContract, CallCode, CallDelegate, CallStatic

\* A constructor runs under a create address.
LEMMA CreateAccounts ==
  ASSUME IInv, Accounts, CreateContract
  PROVE  Accounts'
<1>1. CASE CreateRefused
  BY <1>1, QuietAccounts DEF CreateRefused
<1>2. ASSUME NEW c \in CreationCode, NEW two \in BOOLEAN, CreateWithoutConstructor(c, two)
      PROVE  Accounts'
  BY <1>2, QuietAccounts DEF CreateWithoutConstructor
<1>3. ASSUME NEW c \in CreationCode, NEW v \in Passed, NEW two \in BOOLEAN,
             CreateWithConstructor(c, v, two)
      PROVE  Accounts'
  <2> DEFINE init == StripPrefix[c]
             g == NewFrame("create", NewAddress(two), Top.addr, v, init, c)
  <2>1. Running /\ c \in Code /\ c \notin ShortCode \union {EmptyCode}
    BY <1>3, CodeAssumption DEF CreateWithConstructor
  <2>2. /\ TypeOK /\ ~Idle /\ Top \in Frame /\ Charged(Top) \in Frame
        /\ init \in Code /\ v \in Value
    BY <2>1, ChargedTop, CodeAssumption, WordAssumption DEF IInv
  <2>3. CASE frames' = Append(SetTop(Charged(Top)), g)
    <3>1. NewAddress(two) \in {CreateAddress, Create2Address} /\ Top.addr \in Address
      BY <2>2 DEF NewAddress, Frame
    <3>2. /\ g \in Frame /\ g.kind = "create" /\ g.addr = NewAddress(two)
          /\ g.caller = Top.addr
      BY <2>1, <2>2, <3>1, AddressAssumption, NewFrameIsFrame DEF Kind, NestedKind, NewFrame
    <3> HIDE DEF g
    <3> QED
      BY <2>2, <2>3, <3>1, <3>2, SameAfter, PushAccounts
  <2>4. CASE frames' = SetTop([Answered(Charged(Top), FALSE) EXCEPT !.heard = NoData])
    BY <2>1, <2>4, QuietAccounts
  <2> QED
    BY <1>3, <2>3, <2>4 DEF CreateWithConstructor, Creator
<1>4. ASSUME NEW c \in CreationCode, CreateOfShortCode(c) PROVE Accounts'
  BY <1>4 DEF CreateOfShortCode, Accounts, DelegationKeepsAccount, CreationsPlaced, Entered
<1> QED
  BY <1>1, <1>2, <1>3, <1>4 DEF CreateContract

\* A caller that hears from its callee acts for the account it acted for.
LEMMA ReturnAccounts ==
  ASSUME IInv, Accounts, ReturnFromCall \/ ReturnFromCreate
  PROVE  Accounts'
<1>1. TypeOK /\ StackShape /\ ~Idle /\ Top.kind \in NestedKind
  BY DEF IInv, ReturnFromCall, ReturnFromCreate, Ended, NestedKind
<1>2. ASSUME NEW r, r.ok \in BOOLEAN, r.data \in Data, Deliver(r) PROVE Accounts'
  <2> DEFINE f == [Answered(Caller, r.ok) EXCEPT !.heard = r.data]
  <2>1. f \in Frame /\ SameAccount(f, Caller)
    BY <1>1, <1>2, CallerIsFrame, AnsweredFrame, SameAfter
  <2>2. frames' = PopTo(f)
    BY <1>2 DEF Deliver
  <2> HIDE DEF f
  <2> QED
    BY <1>1, <2>1, <2>2, PopAccounts
<1> QED
  BY <1>1, <1>2, ResultTypes DEF ReturnFromCall, ReturnFromCreate

\* Stacks of one frame or none delegate nothing.
LEMMA ShortStackAccounts ==
  ASSUME \/ frames' = <<>>
         \/ \E f : frames' = <<f>> /\ f.kind # "create"
  PROVE  Accounts'
BY DEF Accounts, DelegationKeepsAccount, CreationsPlaced

\* Each step keeps the accounts of the frames.
LEMMA NextPreservesAccounts ==
  ASSUME IInv, Accounts, [Next]_vars
  PROVE  Accounts'
<1>1. ASSUME NEW k \in Key, NEW v \in Stored, StorageStore(k, v) PROVE Accounts'
  BY <1>1, QuietAccounts DEF StorageStore
<1>2. CASE EmitLogEvent
  BY <1>2, QuietAccounts DEF EmitLogEvent
<1>3. ASSUME NEW d \in Data, Finish(d) \/ Revert(d) PROVE Accounts'
  BY <1>3, QuietAccounts DEF Finish, Revert, Ending
<1>4. CASE Invalid \/ SelfDestruct \/ PlainReturn \/ Trap
  BY <1>4, QuietAccounts, DataAssumption DEF Invalid, SelfDestruct, PlainReturn, Trap, Ending
<1>5. CASE OutOfGas
  <2> DEFINE f == [Top EXCEPT !.ended = "trap", !.out = NoData]
  <2>1. TypeOK /\ ~Idle /\ frames' = SetTop(f)
    BY <1>5 DEF IInv, OutOfGas
  <2>2. f \in Frame /\ SameAccount(f, Top)
    BY <2>1, TopIsFrame, SameAfter, DataAssumption DEF Frame, Ending
  <2> HIDE DEF f
  <2> QED
    BY <2>1, <2>2, SetTopAccounts
<1>6. ASSUME NEW t \in Target,
             \/ \E v \in Passed : CallContract(t, v) \/ CallCode(t, v)
             \/ CallDelegate(t) \/ CallStatic(t)
      PROVE  Accounts'
  BY <1>6, CallAccounts, WordAssumption
<1>7. CASE CallRejected
  BY <1>7, QuietAccounts DEF CallRejected
<1>8. CASE CreateContract
  BY <1>8, CreateAccounts
<1>9. CASE ReturnFromCall \/ ReturnFromCreate
  BY <1>9, ReturnAccounts
<1>10. CASE ReturnFromTransact \/ ReturnFromDeploy
  BY <1>10, ShortStackAccounts DEF ReturnFromTransact, ReturnFromDeploy
<1>11. ASSUME NEW kind \in {"transact", "deploy"}, NEW ctx \in Contexts,
              TopLevel(kind, ctx)
       PROVE  Accounts'
  <2> DEFINE g == NewFrame(kind, ctx.addr, ctx.caller, ctx.value, ctx.code, ctx.code)
  <2>1. CASE frames' = <<g>>
    <3>1. g.kind # "create"
      BY DEF NewFrame
    <3> HIDE DEF g
    <3> QED
      BY <2>1, <3>1, ShortStackAccounts
  <2>2. CASE UNCHANGED frames
    BY <2>2 DEF Accounts, DelegationKeepsAccount, CreationsPlaced, Entered
  <2> QED
    BY <1>11, <2>1, <2>2 DEF TopLevel
<1>12. CASE UNCHANGED vars
  BY <1>12 DEF vars, Accounts, DelegationKeepsAccount, CreationsPlaced, Entered
<1> QED
  BY <1>1, <1>2, <1>3, <1>4, <1>5, <1>6, <1>7, <1>8, <1>9, <1>10, <1>11, <1>12
     DEF Next, Progress

-----------------------------------------------------------------------------
(* The steps a call has left. *)

\* The weight of a frame is a digit, and not 0.
LEMMA WeightIsDigit ==
  ASSUME NEW f \in Frame
  PROVE  Weight(f) \in 1..(StepBase - 1)
<1>1. f.gas \in 0..TxGas /\ TxGas \in Nat
  BY BoundAssumption DEF Frame
<1> QED
  BY <1>1 DEF Weight, StepBase

\* The weights of a stack are MaxDepth digits.
LEMMA WeightsAreDigits ==
  ASSUME NEW s \in Seq(Frame)
  PROVE  Digits(Weights(s), MaxDepth, StepBase)
<1>1. MaxDepth \in Nat /\ 0 \in 0..(StepBase - 1)
  BY BoundAssumption DEF StepBase
<1>2. \A i \in DOMAIN s : Weight(s[i]) \in 0..(StepBase - 1)
  <2> SUFFICES ASSUME NEW i \in DOMAIN s PROVE Weight(s[i]) \in 0..(StepBase - 1)
    OBVIOUS
  <2>1. s[i] \in Frame
    BY ElementOfSeq, LenProperties
  <2>2. Weight(s[i]) \in 1..(StepBase - 1)
    BY <2>1, WeightIsDigit
  <2> QED
    BY <2>2
<1>3. \A i \in 1..MaxDepth : Weights(s)[i] \in 0..(StepBase - 1)
  BY <1>1, <1>2 DEF Weights
<1>4. Len(Weights(s)) = MaxDepth
  BY <1>1 DEF Weights
<1> QED
  BY <1>3, <1>4 DEF Digits

\* The weight at a place of two stacks that agree there.
LEMMA SameWeight ==
  ASSUME NEW s \in Seq(Frame), NEW t \in Seq(Frame), NEW i \in 1..MaxDepth,
         i <= Len(s), i <= Len(t), Weight(t[i]) = Weight(s[i])
  PROVE  Weights(t)[i] = Weights(s)[i]
<1>1. i \in DOMAIN s /\ i \in DOMAIN t
  BY LenProperties, BoundAssumption
<1> QED
  BY <1>1 DEF Weights

\* A stack with a smaller weight at n, and the same weights below, has fewer steps
\* left.
LEMMA LighterIsNearer ==
  ASSUME NEW s \in Seq(Frame), NEW t \in Seq(Frame), NEW n \in 1..MaxDepth,
         Weights(t)[n] < Weights(s)[n],
         \A i \in 1..(n - 1) : Weights(t)[i] = Weights(s)[i]
  PROVE  Numeral(Weights(t), StepBase) < Numeral(Weights(s), StepBase)
<1>1. Precedes(Weights(t), Weights(s), MaxDepth)
  BY DEF Precedes
<1>2. StepBase \in Nat /\ MaxDepth \in Nat
  BY BoundAssumption DEF StepBase
<1>3. Digits(Weights(s), MaxDepth, StepBase) /\ Digits(Weights(t), MaxDepth, StepBase)
  BY WeightsAreDigits
<1> QED
  BY <1>1, <1>2, <1>3, PrecedingIsSmaller, Zenon

\* What a step on behalf of a call does to the steps that are left.
Nearer == DepthBounded' /\ StepsLeft' < StepsLeft

\* Replacing the last frame by a lighter one.
LEMMA SetTopNearer ==
  ASSUME TypeOK, DepthBounded, ~Idle, NEW f \in Frame, Weight(f) < Weight(Top),
         frames' = SetTop(f)
  PROVE  Nearer
<1>1. Len(frames) \in 1..Len(frames) /\ Len(frames) \in 1..MaxDepth /\ frames \in Seq(Frame)
  BY TopIsFrame, BoundAssumption DEF DepthBounded, TypeOK
<1>2. /\ frames' \in Seq(Frame) /\ Len(frames') = Len(frames)
      /\ \A j \in 1..Len(frames) : frames'[j] = IF j = Len(frames) THEN f ELSE frames[j]
  BY <1>1, ExceptSeq DEF SetTop
<1>3. DOMAIN frames = 1..Len(frames) /\ DOMAIN frames' = 1..Len(frames)
  BY <1>1, <1>2, LenProperties
<1>4. Weights(frames')[Len(frames)] < Weights(frames)[Len(frames)]
  BY <1>1, <1>2, <1>3 DEF Weights, Top
<1>5. \A i \in 1..(Len(frames) - 1) : Weights(frames')[i] = Weights(frames)[i]
  <2> SUFFICES ASSUME NEW i \in 1..(Len(frames) - 1)
               PROVE  Weights(frames')[i] = Weights(frames)[i]
    OBVIOUS
  <2>1. i \in 1..Len(frames) /\ i # Len(frames) /\ i \in 1..MaxDepth
    BY <1>1, BoundAssumption
  <2>2. i <= Len(frames) /\ i <= Len(frames') /\ frames'[i] = frames[i]
    BY <1>2, <2>1
  <2> QED
    BY <1>1, <1>2, <2>1, <2>2, SameWeight
<1>6. StepsLeft' < StepsLeft
  BY <1>1, <1>2, <1>4, <1>5, LighterIsNearer DEF StepsLeft
<1> QED
  BY <1>2, <1>6 DEF Nearer, DepthBounded

\* A callee above a caller that paid for it.
LEMMA PushNearer ==
  ASSUME TypeOK, Len(frames) < MaxDepth, ~Idle, NEW f \in Frame, Weight(f) < Weight(Top),
         NEW g \in Frame, frames' = Append(SetTop(f), g)
  PROVE  Nearer
<1> DEFINE s == SetTop(f)
<1>1. Len(frames) \in 1..Len(frames) /\ Len(frames) \in 1..MaxDepth /\ frames \in Seq(Frame)
  BY TopIsFrame, BoundAssumption DEF TypeOK
<1>2. /\ s \in Seq(Frame) /\ Len(s) = Len(frames)
      /\ \A j \in 1..Len(frames) : s[j] = IF j = Len(frames) THEN f ELSE frames[j]
  BY <1>1, ExceptSeq DEF SetTop
<1>3. /\ frames' \in Seq(Frame) /\ Len(frames') = Len(frames) + 1
      /\ \A j \in 1..Len(frames) : frames'[j] = s[j]
  BY <1>2, AppendProperties
<1> HIDE DEF s
<1>4. DOMAIN frames = 1..Len(frames) /\ DOMAIN frames' = 1..(Len(frames) + 1)
  BY <1>1, <1>3, LenProperties
<1>5. Weights(frames')[Len(frames)] < Weights(frames)[Len(frames)]
  BY <1>1, <1>2, <1>3, <1>4 DEF Weights, Top
<1>6. \A i \in 1..(Len(frames) - 1) : Weights(frames')[i] = Weights(frames)[i]
  <2> SUFFICES ASSUME NEW i \in 1..(Len(frames) - 1)
               PROVE  Weights(frames')[i] = Weights(frames)[i]
    OBVIOUS
  <2>1. /\ i \in 1..MaxDepth /\ i <= Len(frames) /\ i <= Len(frames')
        /\ frames'[i] = frames[i]
    BY <1>1, <1>2, <1>3, <1>4, BoundAssumption
  <2> QED
    BY <1>1, <1>3, <2>1, SameWeight
<1>7. StepsLeft' < StepsLeft
  BY <1>1, <1>3, <1>5, <1>6, LighterIsNearer DEF StepsLeft
<1>8. Len(frames') <= MaxDepth
  BY <1>1, <1>3, BoundAssumption
<1> QED
  BY <1>7, <1>8 DEF Nearer, DepthBounded

\* A callee is gone, and its caller as heavy as it was.
LEMMA PopNearer ==
  ASSUME TypeOK, StackShape, DepthBounded, ~Idle, Top.kind \in NestedKind,
         NEW f \in Frame, Weight(f) = Weight(Caller), frames' = PopTo(f)
  PROVE  Nearer
<1> DEFINE n == Len(frames)
           s == SubSeq(frames, 1, n - 2)
<1>1. n \in Nat /\ n - 2 \in Nat /\ n \in 1..MaxDepth /\ frames \in Seq(Frame) /\ Top \in Frame
  BY TopIsFrame, CallerIsFrame, BoundAssumption DEF DepthBounded, TypeOK
<1>2. /\ s \in Seq(Frame) /\ Len(s) = n - 2
      /\ \A i \in 1..(n - 2) : s[i] = frames[i]
  <2>1. n - 2 <= Len(frames)
    BY <1>1
  <2> DEFINE m == n - 2
  <2>2. m \in Nat /\ m <= Len(frames)
    BY <1>1, <2>1
  <2> HIDE DEF m
  <2>3. /\ SubSeq(frames, 1, m) \in Seq(Frame) /\ Len(SubSeq(frames, 1, m)) = m
        /\ \A i \in 1..m : SubSeq(frames, 1, m)[i] = frames[i]
    BY <1>1, <2>2, PrefixProperties
  <2> QED
    BY <2>3 DEF m
<1> HIDE DEF s
<1>3. /\ frames' \in Seq(Frame) /\ Len(frames') = n - 1
      /\ \A i \in 1..(n - 2) : frames'[i] = frames[i]
      /\ frames'[n - 1] = f
  <2>1. frames' = Append(s, f)
    BY DEF PopTo, s
  <2>2. /\ frames' \in Seq(Frame) /\ Len(frames') = Len(s) + 1
        /\ \A i \in 1..Len(s) : frames'[i] = s[i]
        /\ frames'[Len(s) + 1] = f
    BY <1>2, <2>1, AppendProperties
  <2> QED
    BY <1>1, <1>2, <2>2
<1>4. DOMAIN frames = 1..n /\ DOMAIN frames' = 1..(n - 1)
  BY <1>1, <1>3, LenProperties
<1>5. Weights(frames')[n] < Weights(frames)[n]
  <2>1. Weights(frames')[n] = 0
    BY <1>1, <1>4 DEF Weights
  <2>2. Weights(frames)[n] = Weight(Top)
    BY <1>1, <1>4 DEF Weights, Top
  <2> QED
    BY <1>1, <2>1, <2>2, WeightIsDigit
<1>6. \A i \in 1..(n - 1) : Weights(frames')[i] = Weights(frames)[i]
  <2> SUFFICES ASSUME NEW i \in 1..(n - 1)
               PROVE  Weights(frames')[i] = Weights(frames)[i]
    OBVIOUS
  <2>1. Weight(frames'[i]) = Weight(frames[i])
    BY <1>1, <1>3 DEF Caller
  <2>2. i \in 1..MaxDepth /\ i <= Len(frames) /\ i <= Len(frames')
    BY <1>1, <1>3, BoundAssumption
  <2> QED
    BY <1>1, <1>3, <2>1, <2>2, SameWeight
<1>7. StepsLeft' < StepsLeft
  BY <1>1, <1>3, <1>5, <1>6, LighterIsNearer DEF StepsLeft
<1> QED
  BY <1>1, <1>3, <1>7, BoundAssumption DEF Nearer, DepthBounded

\* The outermost guest returned.
LEMMA EmptyNearer ==
  ASSUME TypeOK, DepthBounded, ~Idle, frames' = <<>>
  PROVE  Nearer
<1>1. Len(frames) \in Nat \ {0} /\ 1 \in 1..MaxDepth /\ frames \in Seq(Frame)
  BY TopIsFrame, BoundAssumption DEF TypeOK
<1>2. frames' \in Seq(Frame) /\ Len(frames') = 0 /\ DOMAIN frames' = {}
  BY EmptySeq
<1>3. Weights(frames')[1] = 0
  BY <1>1, <1>2 DEF Weights
<1>4. Weights(frames)[1] = Weight(frames[1]) /\ frames[1] \in Frame
  BY <1>1, ElementOfSeq, LenProperties DEF Weights
<1>5. Weights(frames')[1] < Weights(frames)[1]
  BY <1>3, <1>4, WeightIsDigit
<1>6. \A i \in 1..(1 - 1) : Weights(frames')[i] = Weights(frames)[i]
  OBVIOUS
<1>7. StepsLeft' < StepsLeft
  BY <1>1, <1>2, <1>5, <1>6, LighterIsNearer DEF StepsLeft
<1> QED
  BY <1>2, <1>7, BoundAssumption DEF Nearer, DepthBounded

\* A frame that paid for a step weighs less, running or ended; one that ends without
\* paying weighs less too; an answer weighs nothing.
LEMMA WeightAfter ==
  ASSUME NEW f \in Frame, f.ended = "running"
  PROVE  /\ Weight(Charged(f)) < Weight(f)
         /\ \A b : Weight(Answered(Charged(f), b)) < Weight(f)
         /\ \A b, d : Weight([Answered(Charged(f), b) EXCEPT !.heard = d]) < Weight(f)
         /\ \A b, d : Weight([Answered(f, b) EXCEPT !.heard = d]) = Weight(f)
         /\ \A how \in Ending : \A d : Weight([Charged(f) EXCEPT !.ended = how, !.out = d]) < Weight(f)
         /\ Weight([Charged(f) EXCEPT !.ok = "no", !.told = "one"]) < Weight(f)
         /\ \A d : Weight([f EXCEPT !.ended = "trap", !.out = d]) < Weight(f)
<1>1. f.gas \in Int
  BY BoundAssumption DEF Frame
<1> QED
  BY <1>1 DEF Weight, Charged, Answered, Frame, Ending

\* A running guest's step that starts no callee.
LEMMA QuietNearer ==
  ASSUME IInv, DepthBounded, Running,
         \/ frames' = SetTop(Charged(Top))
         \/ \E b \in BOOLEAN : frames' = SetTop(Answered(Charged(Top), b))
         \/ frames' = SetTop([Charged(Top) EXCEPT !.ok = "no", !.told = "one"])
         \/ frames' = SetTop([Answered(Charged(Top), FALSE) EXCEPT !.heard = NoData])
         \/ \E how \in Ending, d \in Data : Ends(how, d)
  PROVE  Nearer
<1>1. TypeOK /\ ~Idle /\ Top \in Frame /\ Top.ended = "running" /\ Charged(Top) \in Frame
  BY ChargedTop DEF IInv
<1>2. ASSUME NEW f \in Frame, Weight(f) < Weight(Top), frames' = SetTop(f) PROVE Nearer
  BY <1>1, <1>2, SetTopNearer
<1>3. CASE frames' = SetTop(Charged(Top))
  BY <1>1, <1>2, <1>3, WeightAfter
<1>4. ASSUME NEW b \in BOOLEAN, frames' = SetTop(Answered(Charged(Top), b)) PROVE Nearer
  BY <1>1, <1>2, <1>4, WeightAfter, AnsweredFrame, DataAssumption
<1>5. CASE frames' = SetTop([Charged(Top) EXCEPT !.ok = "no", !.told = "one"])
  <2> DEFINE f == [Charged(Top) EXCEPT !.ok = "no", !.told = "one"]
  <2>1. f \in Frame /\ Weight(f) < Weight(Top)
    BY <1>1, WeightAfter DEF Frame
  <2> QED
    BY <1>2, <1>5, <2>1
<1>6. CASE frames' = SetTop([Answered(Charged(Top), FALSE) EXCEPT !.heard = NoData])
  <2> DEFINE f == [Answered(Charged(Top), FALSE) EXCEPT !.heard = NoData]
  <2>1. f \in Frame /\ Weight(f) < Weight(Top)
    BY <1>1, WeightAfter, AnsweredFrame, DataAssumption
  <2> QED
    BY <1>2, <1>6, <2>1
<1>7. ASSUME NEW how \in Ending, NEW d \in Data, Ends(how, d) PROVE Nearer
  <2> DEFINE f == [Charged(Top) EXCEPT !.ended = how, !.out = d]
  <2>1. f \in Frame /\ Weight(f) < Weight(Top)
    BY <1>1, WeightAfter DEF Frame
  <2>2. frames' = SetTop(f)
    BY <1>7 DEF Ends
  <2> QED
    BY <1>2, <2>1, <2>2
<1> QED
  BY <1>3, <1>4, <1>5, <1>6, <1>7

\* A callee starts below the bound, above a caller that paid for it.
LEMMA EnterNearer ==
  ASSUME IInv, Running, Len(frames) < MaxDepth, NEW g \in Frame,
         frames' = Append(SetTop(Charged(Top)), g)
  PROVE  Nearer
<1>1. TypeOK /\ ~Idle /\ Top \in Frame /\ Top.ended = "running" /\ Charged(Top) \in Frame
  BY ChargedTop DEF IInv
<1>2. Weight(Charged(Top)) < Weight(Top)
  BY <1>1, WeightAfter
<1> QED
  BY <1>1, <1>2, PushNearer

\* Each of the four calls takes a step away from its caller.
LEMMA CallNearer ==
  ASSUME IInv, DepthBounded, NEW t \in Target, NEW v \in Value,
         CallContract(t, v) \/ CallCode(t, v) \/ CallDelegate(t) \/ CallStatic(t)
  PROVE  Nearer
<1>1. Running
  BY DEF CallContract, CallCode, CallDelegate, CallStatic, CallInto
<1>2. TypeOK /\ ~Idle /\ Top \in Frame
  BY <1>1, ChargedTop DEF IInv
<1>3. Top.addr \in Address /\ Top.caller \in Address /\ Top.value \in Value
      /\ t \in Address /\ Zero \in Value
  BY <1>2, AddressAssumption, WordAssumption DEF Frame
<1>4. ASSUME NEW kind \in NestedKind, NEW addr \in Address, NEW value \in Value,
             CallInto(kind, t, addr, value)
      PROVE  Nearer
  <2> DEFINE c == TargetCode(t)
             g == NewFrame(kind, addr, Top.caller, value, c, c)
  <2>1. c \in Code /\ kind \in Kind
    BY <1>2, <1>3 DEF TargetCode, TypeOK, Frame, Kind
  <2>2. g \in Frame
    BY <1>3, <2>1, NewFrameIsFrame
  <2>3. CASE Len(frames) < MaxDepth /\ frames' = Append(SetTop(Charged(Top)), g)
    BY <1>1, <2>2, <2>3, EnterNearer
  <2>4. CASE frames' = SetTop(Answered(Charged(Top), FALSE))
    BY <1>1, <2>4, QuietNearer
  <2> QED
    BY <1>4, <2>3, <2>4 DEF CallInto
<1>5. {"call", "callcode", "delegate", "static"} \subseteq NestedKind
  BY DEF NestedKind
<1> QED
  BY <1>3, <1>4, <1>5 DEF CallContract, CallCode, CallDelegate, CallStatic

\* So does a creation, or it kills the process.
LEMMA CreateNearer ==
  ASSUME IInv, DepthBounded, CreateContract
  PROVE  Nearer \/ (aborted' /\ UNCHANGED frames)
<1>1. CASE CreateRefused
  BY <1>1, QuietNearer DEF CreateRefused
<1>2. ASSUME NEW c \in CreationCode, NEW two \in BOOLEAN, CreateWithoutConstructor(c, two)
      PROVE  Nearer
  BY <1>2, QuietNearer DEF CreateWithoutConstructor
<1>3. ASSUME NEW c \in CreationCode, NEW v \in Passed, NEW two \in BOOLEAN,
             CreateWithConstructor(c, v, two)
      PROVE  Nearer
  <2> DEFINE init == StripPrefix[c]
             g == NewFrame("create", NewAddress(two), Top.addr, v, init, c)
  <2>1. Running /\ c \in Code /\ c \notin ShortCode \union {EmptyCode}
    BY <1>3, CodeAssumption DEF CreateWithConstructor
  <2>2. TypeOK /\ Top \in Frame /\ init \in Code /\ v \in Value
    BY <2>1, ChargedTop, CodeAssumption, WordAssumption DEF IInv
  <2>3. NewAddress(two) \in Address /\ Top.addr \in Address
    BY <2>2, AddressAssumption DEF NewAddress, Frame
  <2>4. g \in Frame
    BY <2>1, <2>2, <2>3, NewFrameIsFrame DEF Kind, NestedKind
  <2>5. CASE Len(frames) < MaxDepth /\ frames' = Append(SetTop(Charged(Top)), g)
    BY <2>1, <2>4, <2>5, EnterNearer
  <2>6. CASE frames' = SetTop([Answered(Charged(Top), FALSE) EXCEPT !.heard = NoData])
    BY <2>1, <2>6, QuietNearer
  <2> QED
    BY <1>3, <2>5, <2>6 DEF CreateWithConstructor, Creator
<1>4. ASSUME NEW c \in CreationCode, CreateOfShortCode(c)
      PROVE  aborted' /\ UNCHANGED frames
  BY <1>4 DEF CreateOfShortCode
<1> QED
  BY <1>1, <1>2, <1>3, <1>4 DEF CreateContract

\* A caller that hears from its callee gets nothing back for it.
LEMMA ReturnNearer ==
  ASSUME IInv, DepthBounded, ReturnFromCall \/ ReturnFromCreate
  PROVE  Nearer
<1>1. TypeOK /\ StackShape /\ ~Idle /\ Top.kind \in NestedKind
  BY DEF IInv, ReturnFromCall, ReturnFromCreate, Ended, NestedKind
<1>2. ASSUME NEW r, r.ok \in BOOLEAN, r.data \in Data, Deliver(r) PROVE Nearer
  <2> DEFINE f == [Answered(Caller, r.ok) EXCEPT !.heard = r.data]
  <2>0. Caller \in Frame /\ Caller.ended = "running"
    BY <1>1, CallerIsFrame
  <2>1. f \in Frame /\ Weight(f) = Weight(Caller)
    <3>1. \A b, d : Weight([Answered(Caller, b) EXCEPT !.heard = d]) = Weight(Caller)
      BY <2>0, WeightAfter
    <3>2. f \in Frame
      BY <1>2, <2>0, AnsweredFrame
    <3> QED
      BY <3>1, <3>2, Zenon
  <2>2. frames' = PopTo(f)
    BY <1>2 DEF Deliver
  <2> HIDE DEF f
  <2> QED
    BY <1>1, <2>1, <2>2, PopNearer
<1> QED
  BY <1>1, <1>2, ResultTypes DEF ReturnFromCall, ReturnFromCreate

\* What each step keeps, and what it does to the steps left.
LEMMA NextIsNearer ==
  ASSUME IInv, DepthBounded, [Next]_vars
  PROVE  DepthBounded' /\ (~Idle => aborted' \/ UNCHANGED vars \/ StepsLeft' < StepsLeft)
<1>1. ASSUME NEW k \in Key, NEW v \in Stored, StorageStore(k, v) PROVE Nearer
  BY <1>1, QuietNearer DEF StorageStore
<1>2. CASE EmitLogEvent
  <2>1. Nearer
    BY <1>2, QuietNearer DEF EmitLogEvent
  <2> QED
    BY <2>1 DEF Nearer
<1>3. ASSUME NEW d \in Data, Finish(d) \/ Revert(d) PROVE Nearer
  BY <1>3, QuietNearer DEF Finish, Revert, Ending
<1>4. ASSUME Invalid \/ SelfDestruct \/ PlainReturn \/ Trap PROVE Nearer
  BY <1>4, QuietNearer, DataAssumption DEF Invalid, SelfDestruct, PlainReturn, Trap, Ending
<1>5. ASSUME OutOfGas PROVE Nearer
  <2> DEFINE f == [Top EXCEPT !.ended = "trap", !.out = NoData]
  <2>1. TypeOK /\ ~Idle /\ Top.ended = "running" /\ frames' = SetTop(f)
    BY <1>5 DEF IInv, OutOfGas
  <2>2. f \in Frame /\ Weight(f) < Weight(Top)
    BY <2>1, TopIsFrame, WeightAfter, DataAssumption DEF Frame, Ending
  <2> HIDE DEF f
  <2> QED
    BY <2>1, <2>2, SetTopNearer
<1>6. ASSUME NEW t \in Target,
             \/ \E v \in Passed : CallContract(t, v) \/ CallCode(t, v)
             \/ CallDelegate(t) \/ CallStatic(t)
      PROVE  Nearer
  BY <1>6, CallNearer, WordAssumption
<1>7. ASSUME CallRejected PROVE Nearer
  BY <1>7, QuietNearer DEF CallRejected
<1>8. ASSUME CreateContract PROVE Nearer \/ (aborted' /\ UNCHANGED frames)
  BY <1>8, CreateNearer
<1>9. ASSUME ReturnFromCall \/ ReturnFromCreate PROVE Nearer
  BY <1>9, ReturnNearer
<1>10. ASSUME ReturnFromTransact \/ ReturnFromDeploy PROVE Nearer
  BY <1>10, EmptyNearer DEF ReturnFromTransact, ReturnFromDeploy, Ended, IInv
<1>11. ASSUME NEW kind \in {"transact", "deploy"}, NEW ctx \in Contexts,
              TopLevel(kind, ctx)
       PROVE  DepthBounded' /\ Idle
  <2> DEFINE g == NewFrame(kind, ctx.addr, ctx.caller, ctx.value, ctx.code, ctx.code)
  <2>1. Idle /\ (frames' = <<g>> \/ UNCHANGED frames)
    BY <1>11 DEF TopLevel
  <2> HIDE DEF g
  <2>2. Len(<<g>>) = 1 /\ 1 <= MaxDepth
    BY BoundAssumption
  <2> QED
    BY <2>1, <2>2 DEF DepthBounded
<1>12. ASSUME UNCHANGED frames PROVE DepthBounded'
  BY <1>12 DEF DepthBounded
<1>13. CASE UNCHANGED vars
  BY <1>12, <1>13 DEF vars
<1>14. ASSUME Nearer PROVE DepthBounded' /\ StepsLeft' < StepsLeft
  BY <1>14 DEF Nearer
<1> QED
  BY <1>1, <1>2, <1>3, <1>4, <1>5, <1>6, <1>7, <1>8, <1>9, <1>10, <1>11, <1>12, <1>13, <1>14
     DEF Next, Progress

-----------------------------------------------------------------------------
(* The registry. *)

\* What every change of the registry comes with.
RegisteredStep ==
  /\ \A a \in Address : registry'[a] # registry[a] =>
       a \in {CreateAddress, Create2Address} /\ registry'[a] # NoCode
  /\ frames' # <<>> /\ frames'[Len(frames')].ok = "yes"
  /\ (Len(frames') < Len(frames) => Top.kind = "create" /\ Top.ended # "trap")

\* A creation without a constructor registers under a create address and tells
\* its guest so.
LEMMA WithoutConstructorRegisters ==
  ASSUME IInv, NEW c \in CreationCode, NEW two \in BOOLEAN,
         CreateWithoutConstructor(c, two)
  PROVE  RegisteredStep
<1> DEFINE f == Answered(Charged(Top), TRUE)
<1>1. /\ TypeOK /\ StackShape /\ Running /\ c \in Code /\ frames' = SetTop(f)
      /\ registry' = [registry EXCEPT ![NewAddress(two)] = c]
  BY CodeAssumption DEF IInv, CreateWithoutConstructor, Register
<1>2. f \in Frame /\ f.kind = Top.kind /\ f.ok = "yes"
  BY <1>1, ChargedTop, AnsweredTop DEF Answered, Frame
<1> HIDE DEF f
<1>3. ~Idle' /\ Top' = f /\ Len(frames') = Len(frames)
  BY <1>1, <1>2, ChargedTop, SetTopKeeps
<1>4. Len(frames) \in Nat
  BY <1>1, ChargedTop, TopIsFrame
<1>5. \A a \in Address : registry'[a] # registry[a] => a = NewAddress(two) /\ registry'[a] = c
  BY <1>1 DEF TypeOK
<1>6. NewAddress(two) \in {CreateAddress, Create2Address} /\ c # NoCode
  BY <1>1, AddressAssumption DEF NewAddress
<1> QED
  BY <1>2, <1>3, <1>4, <1>5, <1>6 DEF RegisteredStep, Idle, Top

\* A constructor that returned without a trap is registered where it ran.
LEMMA ConstructorRegisters ==
  ASSUME IInv, Accounts, ReturnFromCreate, registry' # registry
  PROVE  RegisteredStep
<1> DEFINE r == DeploymentResult
           f == [Answered(Caller, r.ok) EXCEPT !.heard = r.data]
<1>1. /\ TypeOK /\ StackShape /\ ~Idle /\ Top.kind = "create"
      /\ frames' = PopTo(f) /\ DeploymentResult.ok
      /\ registry' = [registry EXCEPT ![Top.addr] = Top.image]
  BY DEF IInv, ReturnFromCreate, Ended, Deliver, Register
<1>2. Top.kind \in NestedKind /\ Top \in Frame /\ Top.ended # "trap"
  BY <1>1, TopIsFrame DEF NestedKind, DeploymentResult
<1>3. f \in Frame /\ f.kind = Caller.kind /\ f.ended = "running" /\ f.ok = "yes"
  <2>1. /\ Caller \in Frame /\ Caller.ended = "running"
        /\ r.ok = TRUE /\ r.ok \in BOOLEAN /\ r.data \in Data
    BY <1>1, <1>2, CallerIsFrame, ResultTypes
  <2> HIDE DEF r
  <2>2. f \in Frame /\ f.kind = Caller.kind /\ f.ended = "running"
    BY <2>1, AnsweredFrame
  <2>3. f.ok = "yes"
    BY <2>1 DEF Answered, Frame
  <2> QED
    BY <2>2, <2>3
<1> HIDE DEF f
<1>4. ~Idle' /\ Top' = f
  BY <1>1, <1>2, <1>3, PopKeeps
<1>5. \A a \in Address : registry'[a] # registry[a] => a = Top.addr /\ registry'[a] = Top.image
  BY <1>1 DEF TypeOK
<1>6. Len(frames) \in 1..Len(frames)
  BY <1>1, TopIsFrame
<1>7. Top.addr \in {CreateAddress, Create2Address}
  BY <1>1, <1>6 DEF Accounts, CreationsPlaced, Top
<1>8. Top.image # NoCode
  BY <1>2, AddressAssumption DEF Frame
<1> QED
  BY <1>1, <1>2, <1>3, <1>4, <1>5, <1>7, <1>8 DEF RegisteredStep, Idle, Top

\* No other step changes the registry.
LEMMA OnlyCreationsRegister ==
  ASSUME IInv, Accounts, [Next]_vars, registry' # registry
  PROVE  RegisteredStep
<1>1. \/ \E c \in CreationCode, two \in BOOLEAN : CreateWithoutConstructor(c, two)
      \/ ReturnFromCreate
  <2>1. CASE Next
    BY <2>1 DEF Next, Progress, StorageStore, EmitLogEvent, Finish, Revert, Invalid,
       SelfDestruct, PlainReturn, Trap, OutOfGas, CallContract, CallCode, CallDelegate,
       CallStatic, CallInto, CallRejected, CreateContract, CreateRefused,
       CreateWithConstructor, CreateOfShortCode, ReturnFromCall, ReturnFromTransact,
       ReturnFromDeploy, TopLevel
  <2>2. CASE UNCHANGED vars
    BY <2>2 DEF vars
  <2> QED
    BY <2>1, <2>2
<1> QED
  BY <1>1, WithoutConstructorRegisters, ConstructorRegisters

-----------------------------------------------------------------------------
(* The theorems. *)

\* The initial state satisfies the inductive invariant.
LEMMA InitEstablishesIInv == Init => IInv
<1> SUFFICES ASSUME Init PROVE IInv
  OBVIOUS
<1>1. events \in 0..MaxEvents
  BY BoundAssumption DEF Init
<1>2. storage \in [Key -> Value] /\ registry \in [Address -> Code \union {NoCode}]
  BY WordAssumption, AddressAssumption DEF Init
<1>3. TypeOK
  BY <1>1, <1>2, DataAssumption, EmptySeq DEF Init, TypeOK, NoVerdict
<1>4. StackShape /\ CellsFollowTop
  BY EmptySeq DEF Init, StackShape, CellsFollowTop, Idle
<1>5. VerdictFaithful
  BY DEF Init, VerdictFaithful, NoVerdict
<1> QED
  BY <1>3, <1>4, <1>5 DEF IInv

\* Every nested kind of call goes through CallInto with an address in Address.
LEMMA AnyCallStep ==
  ASSUME IInv, NEW t \in Target, NEW v \in Value,
         CallContract(t, v) \/ CallCode(t, v) \/ CallDelegate(t) \/ CallStatic(t)
  PROVE  IInv'
<1>1. Running /\ TypeOK
  BY DEF IInv, CallContract, CallCode, CallDelegate, CallStatic, CallInto
<1>2. Top.addr \in Address /\ Top.value \in Value /\ t \in Address /\ Zero \in Value
  BY <1>1, ChargedTop, AddressAssumption, WordAssumption DEF Frame
<1>3. {"call", "callcode", "delegate", "static"} \subseteq NestedKind
  BY DEF NestedKind
<1> QED
  BY <1>2, <1>3, CallStep DEF CallContract, CallCode, CallDelegate, CallStatic

\* All creations together preserve the inductive invariant.
LEMMA CreateStep ==
  ASSUME IInv, CreateContract
  PROVE  IInv'
<1>1. CreationCode \subseteq Code /\ Passed \subseteq Value
  BY CodeAssumption, WordAssumption
<1> QED
  BY <1>1, CreateOfNothingStep, CreateWithoutConstructorStep, CreateWithConstructorStep,
     CreateOfShortCodeStep DEF CreateContract

\* Each step, of a guest, a return or the harness, preserves the inductive invariant.
LEMMA NextPreservesIInv == IInv /\ [Next]_vars => IInv'
<1> SUFFICES ASSUME IInv, [Next]_vars PROVE IInv'
  OBVIOUS
<1>1. ASSUME NEW k \in Key, NEW v \in Stored, StorageStore(k, v) PROVE IInv'
  BY <1>1, StoreStep, WordAssumption
<1>2. CASE EmitLogEvent
  BY <1>2, LogStep
<1>3. ASSUME NEW d \in Data, Finish(d) \/ Revert(d) PROVE IInv'
  BY <1>3, FinishStep, RevertStep
<1>4. CASE Invalid \/ SelfDestruct \/ PlainReturn \/ Trap \/ OutOfGas
  BY <1>4, InvalidStep, SilentEndStep, OutOfGasStep
<1>5. ASSUME NEW t \in Target,
             \/ \E v \in Passed : CallContract(t, v) \/ CallCode(t, v)
             \/ CallDelegate(t) \/ CallStatic(t)
      PROVE  IInv'
  BY <1>5, AnyCallStep, WordAssumption
<1>6. CASE CallRejected
  BY <1>6, CallRejectedStep
<1>7. CASE CreateContract
  BY <1>7, CreateStep
<1>8. CASE ReturnFromCall \/ ReturnFromCreate
  BY <1>8, ReturnFromCallStep, ReturnFromCreateStep
<1>9. CASE ReturnFromTransact \/ ReturnFromDeploy
  BY <1>9, ReturnFromTransactStep, ReturnFromDeployStep
<1>10. ASSUME NEW kind \in {"transact", "deploy"}, NEW ctx \in Contexts,
              TopLevel(kind, ctx)
       PROVE  IInv'
  BY <1>10, TopLevelStep
<1>11. CASE UNCHANGED vars
  BY <1>11 DEF vars, IInv, TypeOK, StackShape, CellsFollowTop, CellsReport,
               VerdictFaithful, Idle, Top
<1> QED
  BY <1>1, <1>2, <1>3, <1>4, <1>5, <1>6, <1>7, <1>8, <1>9, <1>10, <1>11
     DEF Next, Progress

\* The invariant that carries the others: types, the shape of the stack, the
\* shared cells following the running frame, and the faithful verdict.
THEOREM InductiveInvariant == Spec => []IInv
<1>1. IInv /\ [Next]_vars => IInv'
  BY NextPreservesIInv
<1> QED
  BY <1>1, InitEstablishesIInv, PTL DEF Spec

\* Every reachable state has the types of the Rust program's state.
THEOREM TypeCorrect == Spec => []TypeOK
<1>1. IInv => TypeOK
  BY DEF IInv
<1> QED
  BY <1>1, InductiveInvariant, PTL

\* The one execution status and return-data cell that all nested guests share
\* describe the running guest whenever they are read (mock_context.rs:761).
THEOREM CellsFollowRunningGuest == Spec => []CellsFollowTop
<1>1. IInv => CellsFollowTop
  BY DEF IInv
<1> QED
  BY <1>1, InductiveInvariant, PTL

\* The harness is told how the outermost guest ended, for any nesting of calls
\* and creations (contract_executor.rs:99-137).
THEOREM VerdictCorrect == Spec => []VerdictFaithful
<1>1. IInv => VerdictFaithful
  BY DEF IInv
<1> QED
  BY <1>1, InductiveInvariant, PTL

\* Together with the accounts of the frames, which the shared cells do not touch.
THEOREM AccountsInvariant == Spec => [](IInv /\ Accounts)
<1>1. Init => IInv /\ Accounts
  <2>1. Init => Accounts
    BY EmptySeq DEF Init, Accounts, DelegationKeepsAccount, CreationsPlaced
  <2> QED
    BY <2>1, InitEstablishesIInv
<1>2. (IInv /\ Accounts) /\ [Next]_vars => (IInv /\ Accounts)'
  BY NextPreservesIInv, NextPreservesAccounts
<1> QED
  BY <1>1, <1>2, PTL DEF Spec

\* CALLCODE and DELEGATECALL act for the account they were called from, to any
\* depth and with any calls and creations in between (mock_context.rs:786,822).
THEOREM DelegationCorrect == Spec => []DelegationKeepsAccount
<1>1. IInv /\ Accounts => DelegationKeepsAccount
  BY DEF Accounts
<1> QED
  BY <1>1, AccountsInvariant, PTL

\* A contract enters the registry in the step that answers a creation which
\* succeeded, and at a create address only (mock_context.rs:931-954).
THEOREM OnlySuccessRegisters == Spec => RegisteredOnSuccessOnly
<1> DEFINE A == registry' # registry => RegisteredStep
<1>1. (IInv /\ Accounts) /\ [Next]_vars => [A]_vars
  BY OnlyCreationsRegister
<1>2. RegisteredOnSuccessOnly <=> [][A]_vars
  BY PTL DEF RegisteredOnSuccessOnly, RegisteredStep
<1> QED
  BY <1>1, <1>2, AccountsInvariant, PTL DEF Spec

\* Guests nest to the bound and not deeper.
THEOREM DepthInvariant == Spec => [](IInv /\ DepthBounded)
<1>1. Init => DepthBounded
  BY EmptySeq, BoundAssumption DEF Init, DepthBounded
<1>2. (IInv /\ DepthBounded) /\ [Next]_vars => (IInv /\ DepthBounded)'
  BY NextPreservesIInv, NextIsNearer
<1> QED
  BY <1>1, <1>2, InitEstablishesIInv, PTL DEF Spec

\* Every step on behalf of a top-level call takes it nearer to its end, although
\* each nested call starts with the whole gas limit (contract_executor.rs:94): what
\* the metering of guests leaves of the liveness of calls without fairness.
THEOREM GasBoundsCalls == Spec => StepsRunOut
<1> DEFINE A == ~Idle => aborted' \/ StepsLeft' < StepsLeft
<1>1. (IInv /\ DepthBounded) /\ [Next]_vars => [A]_vars
  BY NextIsNearer
<1>2. StepsRunOut <=> [][A]_vars
  BY PTL DEF StepsRunOut
<1> QED
  BY <1>1, <1>2, DepthInvariant, PTL DEF Spec

\* A call to any depth has fewer than StepBase to the power MaxDepth steps left,
\* however often its guests call each other.
THEOREM StepsBounded == Spec => [](StepsLeft \in 0..(Power(StepBase, MaxDepth) - 1))
<1>1. TypeOK => StepsLeft \in 0..(Power(StepBase, MaxDepth) - 1)
  <2> SUFFICES ASSUME TypeOK PROVE StepsLeft \in 0..(Power(StepBase, MaxDepth) - 1)
    OBVIOUS
  <2>1. Digits(Weights(frames), MaxDepth, StepBase)
    BY WeightsAreDigits DEF TypeOK
  <2>2. StepBase \in Nat \ {0} /\ MaxDepth \in Nat
    BY BoundAssumption DEF StepBase
  <2> QED
    BY <2>1, <2>2, NumeralRange, Zenon DEF StepsLeft
<1> QED
  BY <1>1, TypeCorrect, PTL

=============================================================================
