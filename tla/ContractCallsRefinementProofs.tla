-------------------- MODULE ContractCallsRefinementProofs --------------------
(***************************************************************************)
(* Each step of ContractCalls is a step of CallProtocol or a stutter, for  *)
(* every depth of nesting and every choice of codes and data.              *)
(***************************************************************************)
EXTENDS ContractCallsRefinement, ContractCallsProofs

\* What the protocol knows of a guest.
Guest == Protocol!Guest

\* What remains of a frame is a guest.
LEMMA GuestType ==
  ASSUME NEW f \in Frame
  PROVE  GuestOf(f) \in Guest
<1>1. f.ended \in {"running"} \union Ending /\ f.out \in Data
      /\ f.heard \in Data \union {Nothing} /\ f.ok \in {"none", "yes", "no"}
  BY DEF Frame
<1>2. Deploys(f) \in BOOLEAN
  BY DEF Deploys
<1> QED
  BY <1>1, <1>2 DEF GuestOf, Guest, Protocol!Guest, Ending, Protocol!Ending

\* The fields of the guest that a frame is.
LEMMA GuestFields ==
  ASSUME NEW f \in Frame
  PROVE  /\ GuestOf(f).deploys = Deploys(f) /\ GuestOf(f).ended = f.ended
         /\ GuestOf(f).out = f.out /\ GuestOf(f).heard = f.heard /\ GuestOf(f).ok = f.ok
BY DEF GuestOf

\* Guests that agree in three of their fields.
LEMMA HeardChange ==
  ASSUME NEW x \in Guest, NEW y \in Guest,
         x.deploys = y.deploys, x.ended = y.ended, x.out = y.out
  PROVE  y = [x EXCEPT !.ok = y.ok, !.heard = y.heard]
BY DEF Guest, Protocol!Guest

\* The same with the other two fields.
LEMMA EndChange ==
  ASSUME NEW x \in Guest, NEW y \in Guest,
         x.deploys = y.deploys, x.heard = y.heard, x.ok = y.ok
  PROVE  y = [x EXCEPT !.ended = y.ended, !.out = y.out]
BY DEF Guest, Protocol!Guest

\* Frames that differ in what they heard, or in how they ended, are guests that
\* differ in that.
LEMMA GuestByFields ==
  ASSUME NEW f \in Frame, NEW g \in Frame,
         f.kind = g.kind, f.ended = g.ended, f.out = g.out
  PROVE  GuestOf(f) = [GuestOf(g) EXCEPT !.ok = f.ok, !.heard = f.heard]
<1>1. GuestOf(f) \in Guest /\ GuestOf(g) \in Guest /\ Deploys(f) = Deploys(g)
  BY GuestType DEF Deploys
<1>2. GuestOf(f) = [GuestOf(g) EXCEPT !.ok = GuestOf(f).ok, !.heard = GuestOf(f).heard]
  <2>1. GuestOf(f).deploys = GuestOf(g).deploys
    BY <1>1, GuestFields
  <2>2. GuestOf(f).ended = GuestOf(g).ended /\ GuestOf(f).out = GuestOf(g).out
    BY GuestFields
  <2> QED
    BY <1>1, <2>1, <2>2, HeardChange, Zenon
<1> QED
  BY <1>2, GuestFields

\* The same of two frames that differ in how they ended.
LEMMA GuestByEnd ==
  ASSUME NEW f \in Frame, NEW g \in Frame,
         f.kind = g.kind, f.heard = g.heard, f.ok = g.ok
  PROVE  GuestOf(f) = [GuestOf(g) EXCEPT !.ended = f.ended, !.out = f.out]
<1>1. GuestOf(f) \in Guest /\ GuestOf(g) \in Guest /\ Deploys(f) = Deploys(g)
  BY GuestType DEF Deploys
<1>2. GuestOf(f) = [GuestOf(g) EXCEPT !.ended = GuestOf(f).ended, !.out = GuestOf(f).out]
  <2>1. GuestOf(f).deploys = GuestOf(g).deploys
    BY <1>1, GuestFields
  <2>2. GuestOf(f).heard = GuestOf(g).heard /\ GuestOf(f).ok = GuestOf(g).ok
    BY GuestFields
  <2> QED
    BY <1>1, <2>1, <2>2, EndChange, Zenon
<1> QED
  BY <1>2, GuestFields

\* A stack of frames is a stack of as many guests.
LEMMA GuestsOfFrames ==
  ASSUME NEW s \in Seq(Frame)
  PROVE  LET g == [i \in 1..Len(s) |-> GuestOf(s[i])]
         IN  /\ g \in Seq(Guest) /\ Len(g) = Len(s)
             /\ \A i \in 1..Len(s) : g[i] = GuestOf(s[i])
<1> DEFINE g == [i \in 1..Len(s) |-> GuestOf(s[i])]
<1>1. Len(s) \in Nat
  BY LenProperties
<1>2. ASSUME NEW i \in 1..Len(s) PROVE GuestOf(s[i]) \in Guest
  BY ElementOfSeq, GuestType
<1>3. g \in [1..Len(s) -> Guest]
  BY <1>2
<1> HIDE DEF g
<1>4. g \in Seq(Guest)
  BY <1>1, <1>3, SeqDef
<1>5. DOMAIN g = 1..Len(s) /\ DOMAIN g = 1..Len(g) /\ Len(g) \in Nat
  BY <1>3, <1>4, LenProperties
<1>6. Len(g) = Len(s)
  BY <1>1, <1>5
<1> QED
  BY <1>4, <1>6 DEF g

\* The abstract stack before a step.
LEMMA GuestsMap ==
  ASSUME TypeOK
  PROVE  /\ Guests \in Seq(Guest) /\ Len(Guests) = Len(frames)
         /\ \A i \in 1..Len(frames) : Guests[i] = GuestOf(frames[i])
BY GuestsOfFrames DEF TypeOK, Guests

\* The same after the step.
LEMMA GuestsMapNext ==
  ASSUME TypeOK'
  PROVE  /\ Guests' \in Seq(Guest) /\ Len(Guests') = Len(frames')
         /\ \A i \in 1..Len(frames') : Guests'[i] = GuestOf(frames'[i])
<1>1. frames' \in Seq(Frame)
  BY DEF TypeOK
<1>2. Guests' = [i \in 1..Len(frames') |-> GuestOf(frames'[i])]
  BY DEF Guests, GuestOf
<1> QED
  BY <1>1, <1>2, GuestsOfFrames

\* The last guest is the one of the last frame.
LEMMA LastGuest ==
  ASSUME TypeOK, ~Idle
  PROVE  /\ Guests # <<>> /\ Protocol!Last = GuestOf(Top)
         /\ GuestOf(Top) \in Guest
<1>1. Len(frames) \in Nat \ {0} /\ Top \in Frame
  BY TopIsFrame
<1>2. Guests # <<>>
  BY <1>1, GuestsMap, EmptySeq
<1>3. Guests[Len(Guests)] = GuestOf(Top)
  BY <1>1, GuestsMap DEF Top
<1> QED
  BY <1>1, <1>2, <1>3, GuestType DEF Protocol!Last

\* Replacing the last frame replaces the last guest.
LEMMA SetTopGuests ==
  ASSUME TypeOK, ~Idle, TypeOK', NEW f \in Frame, frames' = SetTop(f)
  PROVE  Guests' = Protocol!SetLast(GuestOf(f))
<1> DEFINE t == [Guests EXCEPT ![Len(Guests)] = GuestOf(f)]
<1>1. Len(frames) \in Nat \ {0} /\ Len(frames) \in 1..Len(frames)
  BY TopIsFrame
<1>2. /\ Len(frames') = Len(frames)
      /\ \A j \in 1..Len(frames) : frames'[j] = IF j = Len(frames) THEN f ELSE frames[j]
  BY <1>1, ExceptSeq DEF SetTop, TypeOK
<1>3. /\ Guests' \in Seq(Guest) /\ Len(Guests') = Len(frames)
      /\ \A i \in 1..Len(frames) : Guests'[i] = GuestOf(frames'[i])
  BY <1>2, GuestsMapNext
<1>4. /\ t \in Seq(Guest) /\ Len(t) = Len(frames)
      /\ \A j \in 1..Len(frames) : t[j] = IF j = Len(frames) THEN GuestOf(f) ELSE Guests[j]
  <2>1. Guests \in Seq(Guest) /\ Len(Guests) \in 1..Len(Guests) /\ Len(Guests) = Len(frames)
    BY <1>1, GuestsMap
  <2> QED
    BY <2>1, GuestType, ExceptSeq
<1>5. ASSUME NEW j \in 1..Len(frames) PROVE Guests'[j] = t[j]
  BY <1>2, <1>3, <1>4, GuestsMap
<1> HIDE DEF t
<1>6. Guests' = t
  BY <1>3, <1>4, <1>5, SeqEqual
<1> QED
  BY <1>6 DEF Protocol!SetLast, t

\* A callee's frame is a guest on top of its caller's.
LEMMA PushGuests ==
  ASSUME TypeOK, ~Idle, TypeOK', NEW f \in Frame, GuestOf(f) = GuestOf(Top),
         NEW g \in Frame, frames' = Append(SetTop(f), g)
  PROVE  Guests' = Append(Guests, GuestOf(g))
<1> DEFINE s == SetTop(f)
           t == Append(Guests, GuestOf(g))
<1>1. Len(frames) \in Nat \ {0} /\ Len(frames) \in 1..Len(frames)
  BY TopIsFrame
<1>2. /\ s \in Seq(Frame) /\ Len(s) = Len(frames)
      /\ \A j \in 1..Len(frames) : s[j] = IF j = Len(frames) THEN f ELSE frames[j]
  BY <1>1, ExceptSeq DEF SetTop, TypeOK
<1>3. /\ Len(frames') = Len(frames) + 1
      /\ \A j \in 1..Len(frames) : frames'[j] = s[j]
      /\ frames'[Len(frames) + 1] = g
  BY <1>2, AppendProperties
<1>4. /\ Guests' \in Seq(Guest) /\ Len(Guests') = Len(frames) + 1
      /\ \A i \in 1..(Len(frames) + 1) : Guests'[i] = GuestOf(frames'[i])
  BY <1>3, GuestsMapNext
<1>5. /\ t \in Seq(Guest) /\ Len(t) = Len(frames) + 1
      /\ \A j \in 1..Len(frames) : t[j] = Guests[j]
      /\ t[Len(frames) + 1] = GuestOf(g)
  BY GuestsMap, GuestType, AppendProperties
<1>6. ASSUME NEW j \in 1..(Len(frames) + 1) PROVE Guests'[j] = t[j]
  <2>1. CASE j = Len(frames) + 1
    BY <1>3, <1>4, <1>5, <2>1
  <2>2. CASE j # Len(frames) + 1
    <3>1. j \in 1..Len(frames)
      BY <1>1, <2>2
    <3>2. GuestOf(frames'[j]) = GuestOf(frames[j])
      BY <1>2, <1>3, <3>1 DEF Top
    <3> QED
      BY <1>4, <1>5, <3>1, <3>2, GuestsMap
  <2> QED
    BY <2>1, <2>2
<1> HIDE DEF t
<1>7. Guests' = t
  BY <1>4, <1>5, <1>6, SeqEqual
<1> QED
  BY <1>7 DEF t

\* A return takes the callee's guest off and changes its caller's.
LEMMA PopGuests ==
  ASSUME TypeOK, StackShape, ~Idle, Top.kind \in NestedKind, TypeOK',
         NEW f \in Frame, frames' = PopTo(f)
  PROVE  /\ Len(Guests) > 1 /\ Guests[Len(Guests) - 1] = GuestOf(Caller)
         /\ Guests' = Append(SubSeq(Guests, 1, Len(Guests) - 2), GuestOf(f))
<1> DEFINE n == Len(frames) - 2
           s == SubSeq(frames, 1, n)
           q == SubSeq(Guests, 1, n)
           t == Append(q, GuestOf(f))
<1>1. Len(frames) \in Nat /\ n \in Nat /\ Len(Guests) = Len(frames)
  BY TopIsFrame, CallerIsFrame, GuestsMap
<1>2. n + 1 \in 1..Len(frames) /\ n + 1 = Len(Guests) - 1
  BY <1>1
<1>3. Guests[Len(Guests) - 1] = GuestOf(Caller)
  BY <1>1, <1>2, GuestsMap DEF Caller
<1>4. /\ s \in Seq(Frame) /\ Len(s) = n
      /\ \A i \in 1..n : s[i] = frames[i]
  <2>1. frames \in Seq(Frame) /\ n <= Len(frames)
    BY <1>1 DEF TypeOK
  <2> HIDE DEF n
  <2> QED
    BY <1>1, <2>1, PrefixProperties
<1>5. /\ q \in Seq(Guest) /\ Len(q) = n
      /\ \A i \in 1..n : q[i] = Guests[i]
  <2>1. Guests \in Seq(Guest) /\ n <= Len(Guests)
    BY <1>1, GuestsMap
  <2> HIDE DEF n
  <2> QED
    BY <1>1, <2>1, PrefixProperties
<1> HIDE DEF s, q
<1>6. /\ Len(frames') = n + 1
      /\ \A j \in 1..n : frames'[j] = s[j]
      /\ frames'[n + 1] = f
  <2>1. frames' = Append(s, f)
    BY DEF PopTo, s
  <2> QED
    BY <1>4, <2>1, AppendProperties
<1>7. /\ Guests' \in Seq(Guest) /\ Len(Guests') = n + 1
      /\ \A i \in 1..(n + 1) : Guests'[i] = GuestOf(frames'[i])
  BY <1>6, GuestsMapNext
<1>8. /\ t \in Seq(Guest) /\ Len(t) = n + 1
      /\ \A j \in 1..n : t[j] = q[j]
      /\ t[n + 1] = GuestOf(f)
  BY <1>5, GuestType, AppendProperties
<1>9. ASSUME NEW j \in 1..(n + 1) PROVE Guests'[j] = t[j]
  <2>1. CASE j = n + 1
    BY <1>6, <1>7, <1>8, <2>1
  <2>2. CASE j # n + 1
    <3>1. j \in 1..n /\ j \in 1..Len(frames)
      BY <1>1, <2>2
    <3> QED
      BY <1>4, <1>5, <1>6, <1>7, <1>8, <3>1, GuestsMap
  <2> QED
    BY <2>1, <2>2
<1> HIDE DEF t
<1>10. Guests' = t
  BY <1>7, <1>8, <1>9, SeqEqual
<1> QED
  BY <1>1, <1>2, <1>3, <1>10 DEF t, q

-----------------------------------------------------------------------------
(* Steps of the guest. *)

\* The protocol's next-state relation and variables, over the mapped state.
PNext == Protocol!Next
PVars == Protocol!vars

\* A step that only pays, or that changes no frame, is not seen.
LEMMA PaidStep ==
  ASSUME TypeOK, TypeOK', Running, UNCHANGED verdict, frames' = SetTop(Charged(Top))
  PROVE  UNCHANGED PVars
<1>1. ~Idle /\ Top \in Frame /\ Charged(Top) \in Frame
  BY ChargedTop
<1>2. GuestOf(Charged(Top)) = GuestOf(Top)
  BY <1>1 DEF GuestOf, Deploys, Charged, Frame
<1>3. Guests' = [Guests EXCEPT ![Len(Guests)] = Guests[Len(Guests)]]
  BY <1>1, <1>2, SetTopGuests, LastGuest DEF Protocol!SetLast, Protocol!Last
<1>4. Guests' = Guests
  BY <1>3, GuestsMap, LenProperties
<1> QED
  BY <1>4 DEF PVars, Protocol!vars, AbstractVerdict

\* The running frame is a running guest.
LEMMA RunningGuest ==
  ASSUME TypeOK, ~Idle, Top.ended = "running"
  PROVE  Protocol!Running /\ Protocol!Last = GuestOf(Top)
BY LastGuest DEF Protocol!Running, GuestOf

\* The guest ends, with data if it finished or reverted.
LEMMA EndStep ==
  ASSUME TypeOK, TypeOK', ~Idle, Top.ended = "running", UNCHANGED verdict,
         NEW how \in Ending, NEW d \in Data,
         how \notin {"finish", "revert"} => d = NoData,
         NEW g \in Frame, g.kind = Top.kind, g.heard = Top.heard, g.ok = Top.ok,
         frames' = SetTop([g EXCEPT !.ended = how, !.out = d])
  PROVE  PNext
<1> DEFINE f == [g EXCEPT !.ended = how, !.out = d]
<1>1. f \in Frame
  BY DEF Frame
<1>2. /\ frames' = SetTop(f)
      /\ f.kind = Top.kind /\ f.ended = how /\ f.out = d /\ f.heard = Top.heard
      /\ f.ok = Top.ok
  BY DEF Frame
<1> HIDE DEF f
<1>6. GuestOf(f) = [GuestOf(Top) EXCEPT !.ended = how, !.out = d]
  BY <1>1, <1>2, TopIsFrame, GuestByEnd
<1>3. Guests' = Protocol!SetLast(GuestOf(f))
  BY <1>1, <1>2, SetTopGuests
<1>4. AbstractVerdict' = AbstractVerdict
  BY DEF AbstractVerdict
<1>5. Protocol!End(how, d)
  BY <1>3, <1>4, <1>6, RunningGuest DEF Protocol!End
<1> QED
  BY <1>5 DEF PNext, Protocol!Next, Ending, Protocol!Ending

\* The guest gets an answer although no callee ran.
LEMMA AnswerStep ==
  ASSUME TypeOK, TypeOK', ~Idle, Top.ended = "running", UNCHANGED verdict,
         NEW b \in BOOLEAN, NEW h \in {Top.heard, NoData}, NEW f \in Frame,
         GuestOf(f) = [GuestOf(Top) EXCEPT !.ok = IF b THEN "yes" ELSE "no", !.heard = h],
         frames' = SetTop(f)
  PROVE  PNext
<1>1. Guests' = Protocol!SetLast(GuestOf(f))
  BY SetTopGuests
<1>2. AbstractVerdict' = AbstractVerdict
  BY DEF AbstractVerdict
<1>3. h \in {Protocol!Last.heard, NoData}
  BY RunningGuest DEF GuestOf
<1>4. Protocol!AnswerAtOnce(b)
  BY <1>1, <1>2, <1>3, RunningGuest DEF Protocol!AnswerAtOnce, Protocol!YesNo
<1> QED
  BY <1>4 DEF PNext, Protocol!Next

\* The answers of the code: in place, with or without emptied return data.
LEMMA AnsweredGuest ==
  ASSUME NEW f \in Frame, f.gas > 0, NEW b \in BOOLEAN, NEW d \in Data
  PROVE  LET ok == IF b THEN "yes" ELSE "no" IN
         /\ GuestOf(Answered(Charged(f), b)) = [GuestOf(f) EXCEPT !.ok = ok, !.heard = f.heard]
         /\ GuestOf([Answered(Charged(f), b) EXCEPT !.heard = d]) =
              [GuestOf(f) EXCEPT !.ok = ok, !.heard = d]
         /\ GuestOf([Answered(f, b) EXCEPT !.heard = d]) =
              [GuestOf(f) EXCEPT !.ok = ok, !.heard = d]
         /\ GuestOf([Charged(f) EXCEPT !.ok = "no", !.told = "one"]) =
              [GuestOf(f) EXCEPT !.ok = "no", !.heard = f.heard]
<1> DEFINE ok == IF b THEN "yes" ELSE "no"
           f1 == Answered(Charged(f), b)
           f2 == [Answered(Charged(f), b) EXCEPT !.heard = d]
           f3 == [Answered(f, b) EXCEPT !.heard = d]
           f4 == [Charged(f) EXCEPT !.ok = "no", !.told = "one"]
<1>0. f.gas - 1 \in 0..TxGas
  BY BoundAssumption DEF Frame
<1>1. /\ f1 \in Frame /\ f1.kind = f.kind /\ f1.ended = f.ended /\ f1.out = f.out
      /\ f1.ok = ok /\ f1.heard = f.heard
  BY <1>0 DEF Answered, Charged, Frame
<1>2. /\ f2 \in Frame /\ f2.kind = f.kind /\ f2.ended = f.ended /\ f2.out = f.out
      /\ f2.ok = ok /\ f2.heard = d
  BY <1>0 DEF Answered, Charged, Frame
<1>3. /\ f3 \in Frame /\ f3.kind = f.kind /\ f3.ended = f.ended /\ f3.out = f.out
      /\ f3.ok = ok /\ f3.heard = d
  BY DEF Answered, Frame
<1>4. /\ f4 \in Frame /\ f4.kind = f.kind /\ f4.ended = f.ended /\ f4.out = f.out
      /\ f4.ok = "no" /\ f4.heard = f.heard
  BY <1>0 DEF Charged, Frame
<1> HIDE DEF f1, f2, f3, f4, ok
<1>5. /\ GuestOf(f1) = [GuestOf(f) EXCEPT !.ok = ok, !.heard = f.heard]
      /\ GuestOf(f2) = [GuestOf(f) EXCEPT !.ok = ok, !.heard = d]
      /\ GuestOf(f3) = [GuestOf(f) EXCEPT !.ok = ok, !.heard = d]
      /\ GuestOf(f4) = [GuestOf(f) EXCEPT !.ok = "no", !.heard = f.heard]
  <2>1. GuestOf(f1) = [GuestOf(f) EXCEPT !.ok = ok, !.heard = f.heard]
    BY <1>1, GuestByFields
  <2>2. GuestOf(f2) = [GuestOf(f) EXCEPT !.ok = ok, !.heard = d]
    BY <1>2, GuestByFields
  <2>3. GuestOf(f3) = [GuestOf(f) EXCEPT !.ok = ok, !.heard = d]
    BY <1>3, GuestByFields
  <2>4. GuestOf(f4) = [GuestOf(f) EXCEPT !.ok = "no", !.heard = f.heard]
    BY <1>4, GuestByFields
  <2> QED
    BY <2>1, <2>2, <2>3, <2>4
<1> QED
  BY <1>5 DEF f1, f2, f3, f4, ok

\* A callee enters with a clean slate.
LEMMA EnterGuestStep ==
  ASSUME TypeOK, TypeOK', Running, UNCHANGED verdict,
         NEW g \in Frame, GuestOf(g) = Protocol!NewGuest(g.kind = "create"),
         frames' = Append(SetTop(Charged(Top)), g)
  PROVE  PNext
<1>1. ~Idle /\ Top \in Frame /\ Charged(Top) \in Frame /\ Top.ended = "running"
  BY ChargedTop
<1>2. GuestOf(Charged(Top)) = GuestOf(Top)
  BY <1>1 DEF GuestOf, Deploys, Charged, Frame
<1>3. Guests' = Append(Guests, Protocol!NewGuest(g.kind = "create"))
  BY <1>1, <1>2, PushGuests
<1>4. AbstractVerdict' = AbstractVerdict
  BY DEF AbstractVerdict
<1>5. Protocol!Call(g.kind = "create")
  BY <1>1, <1>3, <1>4, RunningGuest DEF Protocol!Call
<1>6. (g.kind = "create") \in BOOLEAN
  OBVIOUS
<1> QED
  BY <1>5, <1>6 DEF PNext, Protocol!Next

\* What becomes of a new frame.
LEMMA NewGuestOf ==
  ASSUME NEW kind, NEW a, NEW c, NEW v, NEW code, NEW image
  PROVE  GuestOf(NewFrame(kind, a, c, v, code, image))
           = Protocol!NewGuest(kind \in {"deploy", "create"})
BY DEF GuestOf, Deploys, NewFrame, Protocol!NewGuest

-----------------------------------------------------------------------------
(* Results. *)

\* The executor judges a called guest by the shared cells as the protocol judges
\* it by its own outcome.
LEMMA ExecutionResults ==
  ASSUME IInv, ~Idle, Top.ended # "running", Top.kind \notin {"deploy", "create"}
  PROVE  ExecutionResult \in Protocol!Results(GuestOf(Top))
<1> DEFINE r == ExecutionResult
           g == GuestOf(Top)
<1>1. TypeOK /\ CellsReport(Top) /\ Top \in Frame
  BY TopIsFrame DEF IInv, CellsFollowTop
<1>2. r \in [ok : BOOLEAN, data : Data, reverted : BOOLEAN]
  BY <1>1, DataAssumption DEF TypeOK, ExecutionResult
<1>3. /\ r.ok = (Top.ended # "trap" /\ status # "reverted")
      /\ r.data = IF Top.ended = "trap" THEN NoData ELSE returnData
      /\ r.reverted = (status = "reverted")
  BY DEF ExecutionResult
<1>4. /\ g.ended = Top.ended /\ g.out = Top.out /\ g.heard = Top.heard
      /\ ~g.deploys
  BY DEF GuestOf, Deploys
<1> HIDE DEF r, g
<1>5. r \in Protocol!Results(g)
  BY <1>1, <1>2, <1>3, <1>4 DEF Protocol!Results, CellsReport
<1> QED
  BY <1>5 DEF r, g

\* The same of a deployed guest.
LEMMA DeploymentResults ==
  ASSUME IInv, ~Idle, Top.ended # "running", Top.kind \in {"deploy", "create"}
  PROVE  DeploymentResult \in Protocol!Results(GuestOf(Top))
<1> DEFINE r == DeploymentResult
           g == GuestOf(Top)
<1>1. TypeOK /\ CellsReport(Top) /\ Top \in Frame
  BY TopIsFrame DEF IInv, CellsFollowTop
<1>2. r \in [ok : BOOLEAN, data : Data, reverted : BOOLEAN]
  BY <1>1, DataAssumption DEF TypeOK, DeploymentResult
<1>3. /\ r.ok = (Top.ended # "trap")
      /\ r.data = IF Top.ended = "trap" THEN NoData ELSE returnData
      /\ r.reverted = FALSE
  BY DEF DeploymentResult
<1>4. /\ g.ended = Top.ended /\ g.out = Top.out /\ g.heard = Top.heard
      /\ g.deploys
  BY DEF GuestOf, Deploys
<1> HIDE DEF r, g
<1>5. r \in Protocol!Results(g)
  BY <1>1, <1>2, <1>3, <1>4 DEF Protocol!Results, CellsReport
<1> QED
  BY <1>5 DEF r, g

-----------------------------------------------------------------------------
(* The steps of ContractCalls. *)

\* Ends of a guest.
LEMMA EndsIsEnd ==
  ASSUME TypeOK, TypeOK', Running, UNCHANGED verdict,
         NEW how \in Ending, NEW d \in Data,
         how \notin {"finish", "revert"} => d = NoData, Ends(how, d)
  PROVE  PNext
<1>1. /\ ~Idle /\ Top.ended = "running" /\ Charged(Top) \in Frame
      /\ Charged(Top).kind = Top.kind /\ Charged(Top).heard = Top.heard
  BY ChargedTop
<1>2. Charged(Top).ok = Top.ok
  BY ChargedTop DEF Charged, Frame
<1> QED
  BY <1>1, <1>2, EndStep DEF Ends

\* Answers in place.
LEMMA AnsweredIsAnswer ==
  ASSUME TypeOK, TypeOK', Running, UNCHANGED verdict,
         \/ \E b \in BOOLEAN : frames' = SetTop(Answered(Charged(Top), b))
         \/ frames' = SetTop([Answered(Charged(Top), FALSE) EXCEPT !.heard = NoData])
         \/ frames' = SetTop([Charged(Top) EXCEPT !.ok = "no", !.told = "one"])
  PROVE  PNext
<1>1. /\ ~Idle /\ Top.ended = "running" /\ Top \in Frame /\ Charged(Top) \in Frame
      /\ Top.gas > 0 /\ NoData \in Data
  BY ChargedTop, DataAssumption DEF Running
<1>2. ASSUME NEW b \in BOOLEAN, frames' = SetTop(Answered(Charged(Top), b)) PROVE PNext
  <2> DEFINE f == Answered(Charged(Top), b)
  <2>1. /\ f \in Frame
        /\ GuestOf(f) = [GuestOf(Top) EXCEPT !.ok = IF b THEN "yes" ELSE "no",
                                             !.heard = Top.heard]
    BY <1>1, AnsweredFrame, AnsweredGuest
  <2>2. frames' = SetTop(f)
    BY <1>2
  <2> HIDE DEF f
  <2> QED
    BY <1>1, <2>1, <2>2, AnswerStep
<1>3. CASE frames' = SetTop([Answered(Charged(Top), FALSE) EXCEPT !.heard = NoData])
  <2> DEFINE f == [Answered(Charged(Top), FALSE) EXCEPT !.heard = NoData]
  <2>1. /\ f \in Frame
        /\ GuestOf(f) = [GuestOf(Top) EXCEPT !.ok = IF FALSE THEN "yes" ELSE "no",
                                             !.heard = NoData]
    BY <1>1, AnsweredFrame, AnsweredGuest
  <2>2. frames' = SetTop(f)
    BY <1>3
  <2> HIDE DEF f
  <2> QED
    BY <1>1, <2>1, <2>2, AnswerStep
<1>4. CASE frames' = SetTop([Charged(Top) EXCEPT !.ok = "no", !.told = "one"])
  <2> DEFINE f == [Charged(Top) EXCEPT !.ok = "no", !.told = "one"]
  <2>1. f \in Frame
    BY <1>1 DEF Frame
  <2>2. GuestOf(f) = [GuestOf(Top) EXCEPT !.ok = IF FALSE THEN "yes" ELSE "no",
                                          !.heard = Top.heard]
    BY <1>1, AnsweredGuest
  <2>3. frames' = SetTop(f)
    BY <1>4
  <2> HIDE DEF f
  <2> QED
    BY <1>1, <2>1, <2>2, <2>3, AnswerStep
<1> QED
  BY <1>2, <1>3, <1>4

\* Calls of all four kinds.
LEMMA CallsMap ==
  ASSUME IInv, IInv', NEW t \in Target, NEW v \in Value,
         CallContract(t, v) \/ CallCode(t, v) \/ CallDelegate(t) \/ CallStatic(t)
  PROVE  PNext
<1>1. Running /\ TypeOK /\ TypeOK' /\ UNCHANGED verdict
  BY DEF IInv, CallContract, CallCode, CallDelegate, CallStatic, CallInto
<1>2. Top.addr \in Address /\ Top.caller \in Address /\ Top.value \in Value
      /\ t \in Address /\ Zero \in Value
  BY <1>1, ChargedTop, AddressAssumption, WordAssumption DEF Frame
<1>3. ASSUME NEW kind \in {"call", "callcode", "delegate", "static"},
             NEW addr \in Address, NEW value \in Value, CallInto(kind, t, addr, value)
      PROVE  PNext
  <2> DEFINE c == TargetCode(t)
             g == NewFrame(kind, addr, Top.caller, value, c, c)
  <2>1. c \in Code
    BY <1>1, <1>2, ChargedTop DEF TargetCode, TypeOK, Frame
  <2>2. CASE frames' = Append(SetTop(Charged(Top)), g)
    <3>1. kind \in Kind /\ kind \notin {"deploy", "create"} /\ kind # "create"
      BY DEF Kind, NestedKind
    <3>2. g \in Frame /\ g.kind = kind
      BY <1>2, <2>1, <3>1, NewFrameIsFrame
    <3>3. GuestOf(g) = Protocol!NewGuest(kind \in {"deploy", "create"})
      BY NewGuestOf
    <3>4. (kind \in {"deploy", "create"}) = (g.kind = "create")
      BY <3>1, <3>2
    <3> HIDE DEF g
    <3>5. GuestOf(g) = Protocol!NewGuest(g.kind = "create")
      BY <3>3, <3>4, Zenon
    <3> QED
      BY <1>1, <2>2, <3>2, <3>5, EnterGuestStep
  <2>3. CASE frames' = SetTop(Answered(Charged(Top), FALSE))
    BY <1>1, <2>3, AnsweredIsAnswer
  <2> QED
    BY <1>3, <2>2, <2>3 DEF CallInto
<1> QED
  BY <1>2, <1>3 DEF CallContract, CallCode, CallDelegate, CallStatic

\* Creations.
LEMMA CreatesMap ==
  ASSUME IInv, IInv', CreateContract
  PROVE  PNext \/ UNCHANGED PVars
<1>0. TypeOK /\ TypeOK'
  BY DEF IInv
<1>1. CASE CreateRefused
  BY <1>0, <1>1, AnsweredIsAnswer DEF CreateRefused
<1>2. ASSUME NEW c \in CreationCode, NEW two \in BOOLEAN, CreateWithoutConstructor(c, two)
      PROVE  PNext
  BY <1>0, <1>2, AnsweredIsAnswer DEF CreateWithoutConstructor
<1>3. ASSUME NEW c \in CreationCode, NEW v \in Passed, NEW two \in BOOLEAN,
             CreateWithConstructor(c, v, two)
      PROVE  PNext
  <2> DEFINE init == StripPrefix[c]
             g == NewFrame("create", NewAddress(two), Top.addr, v, init, c)
  <2>1. Running /\ c \in Code /\ c \notin ShortCode \union {EmptyCode} /\ UNCHANGED verdict
    BY <1>3, CodeAssumption DEF CreateWithConstructor
  <2>2. init \in Code /\ v \in Value /\ Top.addr \in Address /\ NewAddress(two) \in Address
    BY <1>0, <2>1, ChargedTop, CodeAssumption, WordAssumption, AddressAssumption
       DEF Frame, NewAddress
  <2>3. CASE frames' = Append(SetTop(Charged(Top)), g)
    <3>1. g \in Frame /\ g.kind = "create"
      BY <2>1, <2>2, NewFrameIsFrame DEF Kind, NestedKind
    <3>2. GuestOf(g) = Protocol!NewGuest("create" \in {"deploy", "create"})
      BY NewGuestOf
    <3>3. ("create" \in {"deploy", "create"}) = (g.kind = "create")
      BY <3>1
    <3> HIDE DEF g
    <3>4. GuestOf(g) = Protocol!NewGuest(g.kind = "create")
      BY <3>2, <3>3, Zenon
    <3> QED
      BY <1>0, <2>1, <2>3, <3>1, <3>4, EnterGuestStep
  <2>4. CASE frames' = SetTop([Answered(Charged(Top), FALSE) EXCEPT !.heard = NoData])
    BY <1>0, <2>1, <2>4, AnsweredIsAnswer
  <2> QED
    BY <1>3, <2>3, <2>4 DEF CreateWithConstructor, Creator
<1>4. ASSUME NEW c \in CreationCode, CreateOfShortCode(c) PROVE UNCHANGED PVars
  BY <1>4 DEF CreateOfShortCode, PVars, Protocol!vars, Guests, AbstractVerdict
<1> QED
  BY <1>1, <1>2, <1>3, <1>4 DEF CreateContract

\* The caller's guest resumes with a result the protocol allows.
LEMMA ReturnsMap ==
  ASSUME IInv, IInv', ReturnFromCall \/ ReturnFromCreate
  PROVE  PNext
<1>1. /\ TypeOK /\ TypeOK' /\ StackShape /\ ~Idle /\ Top.kind \in NestedKind
      /\ Top.ended # "running" /\ UNCHANGED verdict
  BY DEF IInv, ReturnFromCall, ReturnFromCreate, Ended, NestedKind
<1>2. ASSUME NEW r, r.ok \in BOOLEAN, r.data \in Data, Deliver(r),
             r \in Protocol!Results(GuestOf(Top))
      PROVE  PNext
  <2> DEFINE f == [Answered(Caller, r.ok) EXCEPT !.heard = r.data]
             c == [GuestOf(Caller) EXCEPT !.ok = Protocol!YesNo(r.ok), !.heard = r.data]
  <2>1. Caller \in Frame /\ Caller.kind = Caller.kind
    BY <1>1, CallerIsFrame
  <2>2. f \in Frame
    BY <1>2, <2>1, AnsweredFrame
  <2>3. /\ f.kind = Caller.kind /\ f.ended = Caller.ended /\ f.out = Caller.out
        /\ f.ok = Protocol!YesNo(r.ok) /\ f.heard = r.data
    BY <1>2, <2>1 DEF Answered, Frame, Protocol!YesNo
  <2>4. frames' = PopTo(f)
    BY <1>2 DEF Deliver
  <2> HIDE DEF f
  <2>5. GuestOf(f) = c
    <3>1. GuestOf(f) = [GuestOf(Caller) EXCEPT !.ok = f.ok, !.heard = f.heard]
      BY <2>1, <2>2, <2>3, GuestByFields
    <3> QED
      BY <2>3, <3>1
  <2>6. /\ Len(Guests) > 1 /\ Guests[Len(Guests) - 1] = GuestOf(Caller)
        /\ Guests' = Append(SubSeq(Guests, 1, Len(Guests) - 2), GuestOf(f))
    BY <1>1, <2>2, <2>4, PopGuests
  <2>7. Protocol!Last = GuestOf(Top) /\ Protocol!Last.ended # "running"
    BY <1>1, LastGuest DEF GuestOf
  <2>8. AbstractVerdict' = AbstractVerdict
    BY <1>1 DEF AbstractVerdict
  <2>9. Protocol!Return
    BY <1>2, <2>5, <2>6, <2>7, <2>8 DEF Protocol!Return
  <2> QED
    BY <2>9 DEF PNext, Protocol!Next
<1>3. CASE ReturnFromCall
  <2>1. Top.kind \notin {"deploy", "create"}
    BY <1>3 DEF ReturnFromCall, Ended, NestedKind
  <2> QED
    BY <1>1, <1>2, <1>3, <2>1, ResultTypes, ExecutionResults DEF ReturnFromCall
<1>4. CASE ReturnFromCreate
  <2>1. Top.kind \in {"deploy", "create"}
    BY <1>4 DEF ReturnFromCreate, Ended
  <2> QED
    BY <1>1, <1>2, <1>4, <2>1, ResultTypes, DeploymentResults DEF ReturnFromCreate
<1> QED
  BY <1>3, <1>4

\* A stack without frames is one without guests.
LEMMA NoGuests ==
  (frames = <<>> => Guests = <<>>) /\ (frames' = <<>> => Guests' = <<>>)
<1>1. ASSUME NEW s, s = <<>> PROVE [i \in 1..Len(s) |-> GuestOf(s[i])] = <<>>
  <2>1. s \in Seq(Frame) /\ Len(s) = 0
    BY <1>1, EmptySeq
  <2> QED
    BY <2>1, GuestsOfFrames, EmptySeq
<1>2. Guests' = [i \in 1..Len(frames') |-> GuestOf(frames'[i])]
  BY DEF Guests, GuestOf, Deploys
<1> QED
  BY <1>1, <1>2 DEF Guests

\* The outermost guest's result goes to the harness.
LEMMA ConcludeMap ==
  ASSUME IInv, IInv', ReturnFromTransact \/ ReturnFromDeploy
  PROVE  PNext
<1>1. /\ TypeOK /\ StackShape /\ ~Idle /\ Top.kind \in {"transact", "deploy"}
      /\ Top.ended # "running" /\ frames' = <<>>
  BY DEF IInv, ReturnFromTransact, ReturnFromDeploy, Ended
<1>2. Len(frames) = 1 /\ Top \in Frame
  <2>1. Len(frames) \in Nat \ {0} /\ Len(frames) \in 1..Len(frames) /\ Top \in Frame
    BY <1>1, TopIsFrame
  <2>2. Top.kind \notin NestedKind
    BY <1>1 DEF NestedKind
  <2>3. frames[Len(frames)].kind \in NestedKind <=> Len(frames) > 1
    BY <1>1, <2>1 DEF StackShape
  <2>4. ~(Len(frames) > 1)
    BY <2>2, <2>3, Zenon DEF Top
  <2> QED
    BY <2>1, <2>4
<1>3. Len(Guests) = 1 /\ Protocol!Last = GuestOf(Top) /\ Protocol!Last.ended # "running"
  BY <1>1, <1>2, GuestsMap, LastGuest DEF GuestOf
<1>4. Guests' = <<>>
  BY <1>1, NoGuests
<1>5. Top.ended \in Ending /\ "none" \notin Ending /\ "refused" \notin Ending
  BY <1>1, <1>2 DEF Frame, Ending
<1>6. ASSUME NEW r \in Protocol!Results(GuestOf(Top)),
             AbstractVerdict' = IF Top.kind = "deploy" THEN [r EXCEPT !.data = NoData] ELSE r
      PROVE  PNext
  <2>1. Protocol!Last.deploys <=> Top.kind = "deploy"
    BY <1>1, <1>3 DEF GuestOf, Deploys
  <2>2. Protocol!Conclude
    BY <1>3, <1>4, <1>6, <2>1 DEF Protocol!Conclude
  <2> QED
    BY <2>2 DEF PNext, Protocol!Next
<1>7. CASE ReturnFromTransact
  <2>1. Top.kind = "transact"
    BY <1>7 DEF ReturnFromTransact, Ended
  <2>2. AbstractVerdict' = ExecutionResult
    BY <1>5, <1>7 DEF ReturnFromTransact, AbstractVerdict, Verdict, ExecutionResult
  <2> QED
    BY <1>1, <1>6, <2>1, <2>2, ExecutionResults
<1>8. CASE ReturnFromDeploy
  <2>1. Top.kind = "deploy"
    BY <1>8 DEF ReturnFromDeploy, Ended
  <2>2. AbstractVerdict' = [DeploymentResult EXCEPT !.data = NoData]
    <3> DEFINE r == DeploymentResult
               q == [r EXCEPT !.data = NoData]
    <3>1. r = [ok |-> r.ok, data |-> r.data, reverted |-> r.reverted]
      BY DEF DeploymentResult
    <3>2. verdict' = [ok |-> q.ok, data |-> q.data, reverted |-> q.reverted,
                      ended |-> Top.ended, out |-> Top.out, kind |-> Top.kind]
      BY <1>8 DEF ReturnFromDeploy, Verdict
    <3> HIDE DEF r
    <3>3. q = [ok |-> r.ok, data |-> NoData, reverted |-> r.reverted]
      BY <3>1
    <3>4. q = [ok |-> q.ok, data |-> q.data, reverted |-> q.reverted]
      BY <3>3
    <3> HIDE DEF q
    <3>5. AbstractVerdict' = [ok |-> q.ok, data |-> q.data, reverted |-> q.reverted]
      BY <1>5, <3>2 DEF AbstractVerdict
    <3> QED
      BY <3>4, <3>5 DEF q, r
  <2> QED
    BY <1>1, <1>6, <2>1, <2>2, DeploymentResults
<1> QED
  BY <1>7, <1>8

\* A top-level call.
LEMMA TopLevelMap ==
  ASSUME IInv, IInv', NEW kind \in {"transact", "deploy"}, NEW ctx \in Contexts,
         TopLevel(kind, ctx)
  PROVE  PNext
<1>1. frames = <<>> /\ Guests = <<>>
  BY NoGuests DEF TopLevel, Idle
<1> DEFINE g == NewFrame(kind, ctx.addr, ctx.caller, ctx.value, ctx.code, ctx.code)
<1>2. CASE frames' = <<g>> /\ verdict' = NoVerdict
  <2>1. GuestOf(g) = Protocol!NewGuest(kind \in {"deploy", "create"})
    BY NewGuestOf
  <2>2. (kind \in {"deploy", "create"}) = (kind = "deploy")
    OBVIOUS
  <2> HIDE DEF g
  <2>3. Len(Guests') = 1 /\ Guests'[1] = GuestOf(g) /\ Guests' \in Seq(Guest)
    <3>1. Len(frames') = 1 /\ frames'[1] = g /\ TypeOK'
      BY <1>2 DEF IInv
    <3> QED
      BY <3>1, GuestsMapNext
  <2>4. Guests' = <<Protocol!NewGuest(kind = "deploy")>>
    <3>1. Guests' = <<GuestOf(g)>>
      BY <2>3, SeqEqual
    <3> QED
      BY <2>1, <2>2, <3>1, Zenon
  <2>5. AbstractVerdict' = "pending"
    BY <1>2 DEF AbstractVerdict, NoVerdict
  <2>6. Protocol!Begin(kind = "deploy") /\ (kind = "deploy") \in BOOLEAN
    BY <1>1, <2>4, <2>5 DEF Protocol!Begin
  <2> QED
    BY <2>6 DEF PNext, Protocol!Next
<1>3. CASE UNCHANGED frames /\ verdict' = [NoVerdict EXCEPT !.ended = "refused", !.kind = kind]
  <2>1. AbstractVerdict' = "refused"
    BY <1>3 DEF AbstractVerdict, NoVerdict
  <2>2. Guests' = Guests
    BY <1>3 DEF Guests
  <2>3. Protocol!Refuse
    BY <1>1, <2>1, <2>2 DEF Protocol!Refuse
  <2> QED
    BY <2>3 DEF PNext, Protocol!Next
<1> QED
  BY <1>2, <1>3 DEF TopLevel

-----------------------------------------------------------------------------
(* The theorem. *)

\* Each step is one of the protocol or is not seen by it.
LEMMA StepsMap ==
  ASSUME IInv, IInv', [Next]_vars
  PROVE  PNext \/ UNCHANGED PVars
<1>0. TypeOK /\ TypeOK'
  BY DEF IInv
<1>1. ASSUME NEW k \in Key, NEW v \in Stored, StorageStore(k, v) PROVE UNCHANGED PVars
  BY <1>0, <1>1, PaidStep DEF StorageStore
<1>2. CASE EmitLogEvent
  BY <1>0, <1>2, PaidStep DEF EmitLogEvent
<1>3. ASSUME NEW d \in Data, Finish(d) \/ Revert(d) PROVE PNext
  BY <1>0, <1>3, EndsIsEnd DEF Finish, Revert, Ending
<1>4. CASE Invalid \/ SelfDestruct \/ PlainReturn \/ Trap
  BY <1>0, <1>4, EndsIsEnd, DataAssumption
     DEF Invalid, SelfDestruct, PlainReturn, Trap, Ending
<1>5. CASE OutOfGas
  <2>1. ~Idle /\ Top.ended = "running" /\ Top \in Frame
    BY <1>0, <1>5, TopIsFrame DEF OutOfGas
  <2> QED
    BY <1>0, <1>5, <2>1, EndStep, DataAssumption DEF OutOfGas, Ending
<1>6. ASSUME NEW t \in Target,
             \/ \E v \in Passed : CallContract(t, v) \/ CallCode(t, v)
             \/ CallDelegate(t) \/ CallStatic(t)
      PROVE  PNext
  BY <1>6, CallsMap, WordAssumption
<1>7. CASE CallRejected
  BY <1>0, <1>7, AnsweredIsAnswer DEF CallRejected
<1>8. CASE CreateContract
  BY <1>8, CreatesMap
<1>9. CASE ReturnFromCall \/ ReturnFromCreate
  BY <1>9, ReturnsMap
<1>10. CASE ReturnFromTransact \/ ReturnFromDeploy
  BY <1>10, ConcludeMap
<1>11. ASSUME NEW kind \in {"transact", "deploy"}, NEW ctx \in Contexts, TopLevel(kind, ctx)
       PROVE  PNext
  BY <1>11, TopLevelMap
<1>12. CASE UNCHANGED vars
  BY <1>12 DEF vars, PVars, Protocol!vars, Guests, AbstractVerdict
<1> QED
  BY <1>1, <1>2, <1>3, <1>4, <1>5, <1>6, <1>7, <1>8, <1>9, <1>10, <1>11, <1>12
     DEF Next, Progress

\* Guests that all write one status and one return-data cell behave as guests
\* that own their outcomes, for any depth (mock_context.rs:733-957,
\* contract_executor.rs:45-138).
THEOREM ProtocolImplemented == Spec => ImplementsProtocol
<1>1. Init => Protocol!Init
  BY NoGuests DEF Init, Protocol!Init, AbstractVerdict, NoVerdict
<1>2. IInv /\ IInv' /\ [Next]_vars => [Protocol!Next]_(Protocol!vars)
  BY StepsMap DEF PNext, PVars
<1> QED
  BY <1>1, <1>2, InductiveInvariant, PTL DEF Spec, ImplementsProtocol, Protocol!Spec

=============================================================================
