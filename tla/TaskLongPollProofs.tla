-------------------------- MODULE TaskLongPollProofs --------------------------
(***************************************************************************)
(* For any number of agents, polls and tasks, and any limits: a task is in   *)
(* one place, the poll that registered last for its agent stays registered   *)
(* while it waits, and, when no notification can be dropped, a poll that     *)
(* waits hears of every task it could have.                                 *)
(*                                                                         *)
(* A claimed task is followed through the places that can hold it.  Each     *)
(* step either empties places or moves tasks from one place to another, and  *)
(* a claim takes a task that is pending, hence in no place yet.  For the     *)
(* wake-up, a pending task is followed from its event to the dispatcher.     *)
(***************************************************************************)
EXTENDS TaskLongPoll, SequenceTheorems, FiniteSetTheorems, TLAPS

Kinds == {"delivered", "dispatcher", "got", "slot", "results"}

\* Task t is in the place of the given kind, of poll p when it is a poll's.
At(k, p, t) ==
  \/ k = "delivered" /\ p = NULL /\ t \in delivered
  \/ k = "dispatcher" /\ p = NULL /\ t = dgot
  \/ k = "got" /\ p \in Polls /\ t \in got[p]
  \/ k = "slot" /\ p \in Polls /\ t = slot[p] /\ pc[p] # "idle"
  \/ /\ k = "results" /\ p \in Polls /\ request[p] = "open"
     /\ \E i \in 1 .. Len(results[p]) : t \in results[p][i].tasks

Owners == Polls \cup {NULL}

PendingIsNew ==
  /\ \A i, j \in 1 .. Len(pending) : pending[i] = pending[j] => i = j
  /\ \A i \in 1 .. Len(pending) : pending[i] \notin claimed

PlacesAreClaimed == \A t \in Tasks, k \in Kinds, p \in Owners : At(k, p, t) => t \in claimed

PlacesAreExclusive ==
  \A t \in Tasks, k, l \in Kinds, p, q \in Owners :
    At(k, p, t) /\ At(l, q, t) => k = l /\ p = q

Types ==
  /\ pending \in Seq(Tasks) /\ claimed \subseteq Tasks /\ delivered \subseteq Tasks
  /\ waiters \in [Agents -> Owners] /\ newest \in [Agents -> Owners]
  /\ pc \in [Polls -> PollPcs]
  /\ got \in [Polls -> SUBSET Tasks] /\ slot \in [Polls -> Tasks \cup {NULL}]
  /\ request \in [Polls -> {"none", "open", "answered", "gone"}]
  /\ results \in [Polls -> Seq(Result)] /\ seen \in [Polls -> Nat]
  /\ \A p \in Polls : request[p] = "open" => seen[p] <= 1
  /\ dwaiter \in Owners /\ dgot \in Tasks \cup {NULL}

IInv ==
  /\ Types /\ PendingIsNew /\ PlacesAreClaimed /\ PlacesAreExclusive
  /\ LastWaiterIsRegistered

-----------------------------------------------------------------------------
(***************************************************************************)
(* Sequences.                                                              *)
(***************************************************************************)

\* A sequence without its i-th element.
LEMMA RemoveAtProperties ==
  ASSUME NEW S, NEW s \in Seq(S), NEW i \in 1 .. Len(s)
  PROVE  /\ RemoveAt(s, i) \in Seq(S)
         /\ Len(RemoveAt(s, i)) = Len(s) - 1
         /\ \A j \in 1 .. Len(s) - 1 :
              RemoveAt(s, i)[j] = IF j < i THEN s[j] ELSE s[j + 1]
<1> DEFINE a == SubSeq(s, 1, i - 1)
           b == SubSeq(s, i + 1, Len(s))
<1>1. /\ a \in Seq(S) /\ Len(a) = i - 1
      /\ \A j \in 1 .. i - 1 : a[j] = s[j]
  <2>1. \A j \in 1 .. i - 1 : s[j] \in S
    BY ElementOfSeq, LenProperties
  <2> QED BY <2>1, SubSeqProperties, LenProperties
<1>2. /\ b \in Seq(S) /\ Len(b) = Len(s) - i
      /\ \A j \in 1 .. Len(s) - i : b[j] = s[i + j]
  <2>1. \A j \in i + 1 .. Len(s) : s[j] \in S
    BY ElementOfSeq, LenProperties
  <2> QED BY <2>1, SubSeqProperties, LenProperties
<1> HIDE DEF a, b
<1>3. RemoveAt(s, i) = a \o b
  BY DEF RemoveAt, a, b
<1>4. /\ a \o b \in Seq(S) /\ Len(a \o b) = Len(a) + Len(b)
      /\ \A j \in 1 .. Len(a) + Len(b) :
           (a \o b)[j] = IF j <= Len(a) THEN a[j] ELSE b[j - Len(a)]
  BY <1>1, <1>2, ConcatProperties
<1>5. Len(s) \in Nat
  BY LenProperties
<1>6. ASSUME NEW j \in 1 .. Len(s) - 1
      PROVE  (a \o b)[j] = IF j < i THEN s[j] ELSE s[j + 1]
  <2>1. CASE j < i
    BY <1>1, <1>2, <1>4, <1>5, <2>1
  <2>2. CASE ~ j < i
    <3>1. (a \o b)[j] = b[j - (i - 1)] /\ j - (i - 1) \in 1 .. Len(s) - i
      BY <1>1, <1>2, <1>4, <1>5, <2>2
    <3>2. b[j - (i - 1)] = s[i + (j - (i - 1))]
      BY <1>2, <3>1
    <3>3. i + (j - (i - 1)) = j + 1
      BY <1>5
    <3> QED BY <2>2, <3>1, <3>2, <3>3
  <2> QED BY <2>1, <2>2
<1> QED BY <1>1, <1>2, <1>3, <1>4, <1>5, <1>6

\* A task that a prefix of the results holds is in one of them.
LEMMA TasksInResults ==
  ASSUME NEW rs \in Seq(Result), NEW n \in Int, NEW t \in TasksIn(rs, n)
  PROVE  \E i \in 1 .. Len(rs) : t \in rs[i].tasks
<1>1. PICK r \in Range(First(rs, n)) : t \in r.tasks
  BY DEF TasksIn
<1>2. CASE Len(rs) <= n
  BY <1>1, <1>2, LenProperties DEF First, Range
<1>3. CASE ~ Len(rs) <= n
  <2>1. \A i \in 1 .. n : rs[i] \in Result
    BY <1>3, ElementOfSeq, LenProperties
  <2>2. /\ SubSeq(rs, 1, n) \in Seq(Result)
        /\ Len(SubSeq(rs, 1, n)) = IF 1 <= n THEN n ELSE 0
        /\ \A i \in 1 .. n : SubSeq(rs, 1, n)[i] = rs[i]
    BY <2>1, SubSeqProperties
  <2>3. PICK i \in 1 .. n : r = rs[i]
    BY <1>1, <1>3, <2>2, LenProperties DEF First, Range
  <2> QED BY <1>1, <1>3, <2>3, LenProperties
<1> QED BY <1>2, <1>3

-----------------------------------------------------------------------------
(***************************************************************************)
(* How the places of the tasks may change in a step.                        *)
(***************************************************************************)

\* Places are emptied, or nothing happens to them.
LEMMA PlacesShrink ==
  ASSUME PlacesAreClaimed, PlacesAreExclusive, claimed \subseteq claimed',
         \A t \in Tasks, k \in Kinds, p \in Owners : At(k, p, t)' => At(k, p, t)
  PROVE  PlacesAreClaimed' /\ PlacesAreExclusive'
BY DEF PlacesAreClaimed, PlacesAreExclusive

\* What was in place <<k0, p0>> is now in <<k1, p1>>, if anywhere.
Moves(k0, p0, k1, p1) ==
  \A t \in Tasks, k \in Kinds, p \in Owners :
    At(k, p, t)' => \/ At(k, p, t) /\ ~(k = k0 /\ p = p0)
                    \/ k = k1 /\ p = p1 /\ At(k0, p0, t)

\* A task that moves from one place to another is still in one place.
LEMMA PlacesMove ==
  ASSUME PlacesAreClaimed, PlacesAreExclusive, claimed \subseteq claimed',
         NEW k0 \in Kinds, NEW p0 \in Owners, NEW k1 \in Kinds, NEW p1 \in Owners,
         Moves(k0, p0, k1, p1)
  PROVE  PlacesAreClaimed' /\ PlacesAreExclusive'
<1>1. PlacesAreClaimed'
  BY DEF PlacesAreClaimed, Moves
<1>2. PlacesAreExclusive'
  BY DEF PlacesAreExclusive, Moves
<1> QED BY <1>1, <1>2

\* A task that was not claimed before is now in one place.
LEMMA PlacesClaim ==
  ASSUME PlacesAreClaimed, PlacesAreExclusive,
         NEW u \in Tasks, u \notin claimed, claimed' = claimed \cup {u},
         NEW k1 \in Kinds, NEW p1 \in Owners,
         \A t \in Tasks, k \in Kinds, p \in Owners :
           At(k, p, t)' => At(k, p, t) \/ (k = k1 /\ p = p1 /\ t = u)
  PROVE  PlacesAreClaimed' /\ PlacesAreExclusive'
<1>1. PlacesAreClaimed'
  BY DEF PlacesAreClaimed
<1>2. PlacesAreExclusive'
  BY DEF PlacesAreExclusive, PlacesAreClaimed
<1> QED BY <1>1, <1>2

\* A claim takes a pending task that no place holds.
LEMMA ClaimTakesNewTask ==
  ASSUME Types, PendingIsNew, NEW a, NEW t \in Tasks, ClaimTaskForAgent(a, t)
  PROVE  /\ t \notin claimed /\ claimed' = claimed \cup {t}
         /\ pending' \in Seq(Tasks) /\ PendingIsNew'
<1>1. PICK i \in DOMAIN pending : pending[i] = t /\ pending' = RemoveAt(pending, i)
  BY DEF ClaimTaskForAgent
<1>2. /\ pending \in Seq(Tasks) /\ i \in 1 .. Len(pending)
      /\ Len(pending) \in Nat /\ DOMAIN pending = 1 .. Len(pending)
  BY <1>1, LenProperties DEF Types
<1>3. /\ pending' \in Seq(Tasks) /\ Len(pending') = Len(pending) - 1
      /\ \A j \in 1 .. Len(pending) - 1 :
           pending'[j] = IF j < i THEN pending[j] ELSE pending[j + 1]
  BY <1>1, <1>2, RemoveAtProperties
<1>4. claimed' = claimed \cup {t}
  BY DEF ClaimTaskForAgent
<1>5. \A j \in 1 .. Len(pending') : pending'[j] \notin claimed'
  <2> TAKE j \in 1 .. Len(pending')
  <2>1. PICK m \in 1 .. Len(pending) : pending'[j] = pending[m] /\ m # i
    BY <1>2, <1>3
  <2> QED BY <1>1, <1>2, <1>4, <2>1 DEF PendingIsNew
<1>6. \A j, l \in 1 .. Len(pending') : pending'[j] = pending'[l] => j = l
  BY <1>2, <1>3 DEF PendingIsNew
<1> QED BY <1>1, <1>2, <1>3, <1>4, <1>5, <1>6 DEF PendingIsNew

\* No poll is open and no task is claimed at first.
LEMMA InitInv == Init => IInv
BY LongPollAssumption DEF Init, IInv, Types, PendingIsNew, PlacesAreClaimed, PlacesAreExclusive,
   LastWaiterIsRegistered, At, Owners, Kinds, Inside, running, PollPcs, Result

-----------------------------------------------------------------------------
(***************************************************************************)
(* Every action preserves the invariant.                                    *)
(***************************************************************************)

placeVars == <<pending, claimed, delivered, waiters, newest, pc, got, slot, request, results,
               seen, dgot>>

\* Notifications and the shutdown but for Clear touch no place and no waiter.
LEMMA OtherSteps ==
  ASSUME IInv, UNCHANGED placeVars, dwaiter' \in Owners, running' => running
  PROVE  IInv'
<1> USE DEF placeVars
<1>1. Types' /\ PendingIsNew'
  BY DEF IInv, Types, PendingIsNew
<1>2. PlacesAreClaimed' /\ PlacesAreExclusive'
  BY PlacesShrink DEF IInv, At
<1>3. LastWaiterIsRegistered'
  BY DEF IInv, LastWaiterIsRegistered, Inside
<1> QED BY <1>1, <1>2, <1>3 DEF IInv

\* The waiters stay, and nobody comes inside.
LEMMA WaitersStay ==
  ASSUME LastWaiterIsRegistered, UNCHANGED <<waiters, newest, phase>>,
         \A p \in Polls : Inside(p)' => Inside(p)
  PROVE  LastWaiterIsRegistered'
BY DEF LastWaiterIsRegistered, running

LEMMA SubmitInv ==
  ASSUME IInv, NEW t \in Tasks, Submit(t)
  PROVE  IInv'
<1>1. pending \in Seq(Tasks) /\ Len(pending) \in Nat /\ DOMAIN pending = 1 .. Len(pending)
  BY LenProperties DEF IInv, Types
<1>2. <<t>> \in Seq(Tasks) /\ Len(<<t>>) = 1 /\ <<t>>[1] = t
  OBVIOUS
<1>3. /\ pending' \in Seq(Tasks) /\ Len(pending') = 1 + Len(pending)
      /\ \A i \in 1 .. 1 + Len(pending) :
           pending'[i] = IF i <= 1 THEN <<t>>[i] ELSE pending[i - 1]
  BY <1>1, <1>2, ConcatProperties DEF Submit
<1>4. t \notin claimed /\ \A i \in 1 .. Len(pending) : pending[i] # t
  BY <1>1 DEF Submit, Range
<1>5. PendingIsNew'
  <2>1. \A i \in 2 .. Len(pending') : i - 1 \in 1 .. Len(pending) /\ pending'[i] = pending[i - 1]
    BY <1>1, <1>3
  <2>2. pending'[1] = t /\ claimed' = claimed
    BY <1>1, <1>2, <1>3 DEF Submit
  <2>3. \A i \in 1 .. Len(pending') : i = 1 \/ i \in 2 .. Len(pending')
    BY <1>1, <1>3
  <2>4. /\ \A i, j \in 1 .. Len(pending) : pending[i] = pending[j] => i = j
        /\ \A i \in 1 .. Len(pending) : pending[i] \notin claimed
    BY DEF IInv, PendingIsNew
  <2>5. \A i \in 1 .. Len(pending') : pending'[i] \notin claimed'
    BY <1>4, <2>1, <2>2, <2>3, <2>4
  <2>6. ASSUME NEW i \in 1 .. Len(pending'), NEW j \in 1 .. Len(pending'),
               pending'[i] = pending'[j]
        PROVE  i = j
    <3>1. CASE i = 1 /\ j # 1
      BY <1>4, <2>1, <2>2, <2>3, <2>6, <3>1
    <3>2. CASE i # 1 /\ j = 1
      BY <1>4, <2>1, <2>2, <2>3, <2>6, <3>2
    <3>3. CASE i # 1 /\ j # 1
      <4>1. i \in 2 .. Len(pending') /\ j \in 2 .. Len(pending')
        BY <2>3, <3>3
      <4>2. pending[i - 1] = pending[j - 1] /\ i - 1 \in 1 .. Len(pending)
            /\ j - 1 \in 1 .. Len(pending)
        BY <2>1, <2>6, <4>1
      <4>3. i - 1 = j - 1
        BY <2>4, <4>2
      <4> QED BY <4>1, <4>3
    <3> QED BY <3>1, <3>2, <3>3
  <2> QED BY <2>5, <2>6 DEF PendingIsNew
<1>6. Types'
  BY <1>3 DEF IInv, Types, Submit, pollVars, dispatchVars
<1>7. PlacesAreClaimed' /\ PlacesAreExclusive'
  BY PlacesShrink DEF IInv, At, Submit, pollVars, dispatchVars
<1>8. LastWaiterIsRegistered'
  BY WaitersStay DEF IInv, Inside, Submit, pollVars
<1> QED BY <1>5, <1>6, <1>7, <1>8 DEF IInv

LEMMA StartInv ==
  ASSUME IInv, NEW p \in Polls, Start(p)
  PROVE  IInv'
<1> USE DEF engineVars, dispatchVars
<1>1. Types'
  BY DEF IInv, Types, Start, Goto, PollPcs
<1>2. PendingIsNew'
  BY DEF IInv, PendingIsNew, Start
<1>3. PlacesAreClaimed' /\ PlacesAreExclusive'
  <2>1. \A t \in Tasks, k \in Kinds, q \in Owners : At(k, q, t)' => At(k, q, t)
    BY LongPollAssumption DEF IInv, Types, At, Start, Goto
  <2> QED BY <2>1, PlacesShrink DEF IInv, Start
<1>4. LastWaiterIsRegistered'
  BY WaitersStay DEF IInv, Types, Inside, Start, Goto
<1> QED BY <1>1, <1>2, <1>3, <1>4 DEF IInv

LEMMA ListInv ==
  ASSUME IInv, NEW p \in Polls, List(p)
  PROVE  IInv'
<1> USE DEF engineVars, dispatchVars
<1>1. /\ pc' = [pc EXCEPT ![p] = pc'[p]]
      /\ pc[p] = "list1" => pc'[p] \in {"return", "register", "claim1"}
      /\ pc[p] = "list2" => pc'[p] \in {"return", "wait", "claim2"}
      /\ pc[p] \in {"list1", "list2"}
  BY DEF IInv, Types, List, Goto, NoChanges
<1>2. Types'
  BY <1>1 DEF IInv, Types, List, PollPcs
<1>3. PendingIsNew'
  BY DEF IInv, PendingIsNew, List
<1>4. PlacesAreClaimed' /\ PlacesAreExclusive'
  <2>1. \A t \in Tasks, k \in Kinds, q \in Owners : At(k, q, t)' => At(k, q, t)
    BY <1>1 DEF IInv, Types, At, List
  <2> QED BY <2>1, PlacesShrink DEF IInv, List
<1>5. LastWaiterIsRegistered'
  <2>1. \A q \in Polls : Inside(q)' => Inside(q)
    BY <1>1 DEF IInv, Types, Inside
  <2> QED BY <2>1, WaitersStay DEF IInv, List
<1> QED BY <1>2, <1>3, <1>4, <1>5 DEF IInv

LEMMA ClaimOneInv ==
  ASSUME IInv, NEW p \in Polls, ClaimOne(p)
  PROVE  IInv'
<1>0. UNCHANGED <<delivered, waiters, newest, slot, request, results, seen, dgot, dwaiter, phase>>
  BY DEF ClaimOne, dispatchVars
<1>1. /\ pc' = [pc EXCEPT ![p] = pc'[p]] /\ got' = [got EXCEPT ![p] = got'[p]]
      /\ pc[p] = "claim1" => pc'[p] \in {"claim1", "return", "register"}
      /\ pc[p] = "claim2" => pc'[p] \in {"claim2", "return", "wait"}
      /\ pc[p] \in {"claim1", "claim2"}
  BY DEF IInv, Types, ClaimOne, Checked, Goto, NoChanges
<1>2. LastWaiterIsRegistered'
  <2>1. \A q \in Polls : Inside(q)' => Inside(q)
    BY <1>1 DEF IInv, Types, Inside
  <2> QED BY <1>0, <2>1, WaitersStay DEF IInv
<1>3. ASSUME NEW t \in Tasks, ClaimTaskForAgent(AgentOf[p], t), got'[p] = got[p] \cup {t}
      PROVE  IInv'
  <2>1. /\ t \notin claimed /\ claimed' = claimed \cup {t}
        /\ pending' \in Seq(Tasks) /\ PendingIsNew'
    BY <1>3, ClaimTakesNewTask DEF IInv
  <2>2. Types'
    <3>1. pc' \in [Polls -> PollPcs]
      BY <1>1 DEF IInv, Types, PollPcs
    <3>2. got' \in [Polls -> SUBSET Tasks]
      BY <1>1, <1>3 DEF IInv, Types
    <3>3. claimed' \subseteq Tasks
      BY <2>1 DEF IInv, Types
    <3> QED BY <1>0, <2>1, <3>1, <3>2, <3>3 DEF IInv, Types
  <2>3. PlacesAreClaimed' /\ PlacesAreExclusive'
    <3>1. \A u \in Tasks, k \in Kinds, q \in Owners :
            At(k, q, u)' => At(k, q, u) \/ (k = "got" /\ q = p /\ u = t)
      BY <1>0, <1>1, <1>3 DEF IInv, Types, At
    <3> QED BY <2>1, <3>1, PlacesClaim DEF IInv, Kinds, Owners
  <2> QED BY <1>2, <2>1, <2>2, <2>3 DEF IInv
<1>4. ASSUME got' = got, UNCHANGED <<pending, claimed>>
      PROVE  IInv'
  <2>1. Types' /\ PendingIsNew'
    <3>1. pc' \in [Polls -> PollPcs]
      BY <1>1 DEF IInv, Types, PollPcs
    <3> QED BY <1>0, <1>4, <3>1 DEF IInv, Types, PendingIsNew
  <2>2. PlacesAreClaimed' /\ PlacesAreExclusive'
    <3>1. \A u \in Tasks, k \in Kinds, q \in Owners : At(k, q, u)' => At(k, q, u)
      BY <1>0, <1>1, <1>4 DEF IInv, Types, At
    <3> QED BY <1>4, <3>1, PlacesShrink DEF IInv
  <2> QED BY <1>2, <2>1, <2>2 DEF IInv
<1>5. CASE \E t \in Tasks : /\ ClaimTaskForAgent(AgentOf[p], t)
                             /\ got'[p] = got[p] \cup {t}
  BY <1>3, <1>5
<1>6. CASE got' = got /\ UNCHANGED <<pending, claimed>>
  BY <1>4, <1>6
<1>7. \/ \E t \in Tasks : ClaimTaskForAgent(AgentOf[p], t) /\ got'[p] = got[p] \cup {t}
      \/ got' = got /\ UNCHANGED <<pending, claimed>>
  <2>1. ASSUME NEW t \in Tasks, ClaimTaskForAgent(AgentOf[p], t),
               IF left[p] = 1 THEN Checked(p, got[p] \cup {t})
               ELSE /\ left' = [left EXCEPT ![p] = @ - 1]
                    /\ got' = [got EXCEPT ![p] = @ \cup {t}]
                    /\ UNCHANGED pc
        PROVE  got'[p] = got[p] \cup {t}
    BY <2>1 DEF IInv, Types, Checked
  <2>2. ASSUME Checked(p, got[p]) PROVE got' = got
    BY <2>2 DEF IInv, Types, Checked
  <2> QED BY <2>1, <2>2 DEF ClaimOne, ClaimsNothing, ClaimFails, engineVars
<1> QED BY <1>5, <1>6, <1>7

LEMMA RegisterInv ==
  ASSUME IInv, NEW p \in Polls, Register(p)
  PROVE  IInv'
<1> USE DEF engineVars, dispatchVars
<1>1. AgentOf[p] \in Agents
  BY LongPollAssumption
<1>2. Types' /\ PendingIsNew'
  BY <1>1 DEF IInv, Types, PendingIsNew, Register, Goto, AfterRegister, PollPcs, Owners
<1>3. PlacesAreClaimed' /\ PlacesAreExclusive'
  <2>1. \A t \in Tasks, k \in Kinds, q \in Owners : At(k, q, t)' => At(k, q, t)
    BY DEF IInv, Types, At, Register, Goto
  <2> QED BY <2>1, PlacesShrink DEF IInv, Register
<1>4. LastWaiterIsRegistered'
  <2>1. ASSUME running', NEW q \in Polls, Inside(q)', newest'[AgentOf[q]] = q
        PROVE  waiters'[AgentOf[q]] = q
    <3>1. AgentOf[q] \in Agents
      BY LongPollAssumption
    <3>2. CASE q = p
      BY <1>1, <3>2 DEF IInv, Types, Register
    <3>3. CASE q # p
      <4>1. AgentOf[q] # AgentOf[p]
        BY <1>1, <2>1, <3>3 DEF IInv, Types, Register
      <4>2. Inside(q) /\ running /\ newest[AgentOf[q]] = q
        BY <1>1, <2>1, <3>1, <3>3, <4>1 DEF IInv, Types, Register, Inside, Goto, running
      <4> QED BY <1>1, <3>1, <4>1, <4>2 DEF IInv, Types, Register, LastWaiterIsRegistered
    <3> QED BY <3>2, <3>3
  <2> QED BY <2>1 DEF LastWaiterIsRegistered
<1> QED BY <1>2, <1>3, <1>4 DEF IInv

LEMMA WakeInv ==
  ASSUME IInv, NEW p \in Polls, Wake(p)
  PROVE  IInv'
<1>0. UNCHANGED <<pending, claimed, delivered, waiters, newest, request, results, seen, dgot,
                  dwaiter, phase>>
  BY DEF Wake, engineVars, dispatchVars
<1>1. pc[p] = "wait" /\ pc' = [pc EXCEPT ![p] = "return"]
  BY DEF Wake, Goto
<1>2. pc' \in [Polls -> PollPcs] /\ PendingIsNew'
  BY <1>0, <1>1 DEF IInv, Types, PollPcs, PendingIsNew
<1>3. LastWaiterIsRegistered'
  BY <1>0, <1>1, WaitersStay DEF IInv, Types, Inside
<1>4. CASE /\ slot[p] # NULL
           /\ got' = [got EXCEPT ![p] = {slot[p]}] /\ slot' = [slot EXCEPT ![p] = NULL]
  <2>1. got' \in [Polls -> SUBSET Tasks] /\ slot' \in [Polls -> Tasks \cup {NULL}]
    BY <1>4 DEF IInv, Types
  <2>2. Types'
    BY <1>0, <1>2, <2>1 DEF IInv, Types
  <2>3. Moves("slot", p, "got", p)
    <3>1. NULL \notin Tasks
      BY LongPollAssumption
    <3>2. ASSUME NEW q \in Polls
          PROVE  /\ slot'[q] = IF q = p THEN NULL ELSE slot[q]
                 /\ got'[q] = IF q = p THEN {slot[p]} ELSE got[q]
                 /\ pc'[q] # "idle" => pc[q] # "idle"
      BY <1>1, <1>4 DEF IInv, Types
    <3>3. pc[p] # "idle"
      BY <1>1
    <3> USE DEF Moves
    <3> TAKE t \in Tasks, k \in Kinds, q \in Owners
    <3> HAVE At(k, q, t)'
    <3>4. CASE k = "got"
      BY <1>0, <3>1, <3>2, <3>3, <3>4 DEF At
    <3>5. CASE k = "slot"
      BY <1>0, <3>1, <3>2, <3>5 DEF At
    <3>6. CASE k \notin {"got", "slot"}
      BY <1>0, <3>6 DEF At
    <3> QED BY <3>4, <3>5, <3>6
  <2>4. PlacesAreClaimed' /\ PlacesAreExclusive'
    BY <1>0, <2>3, PlacesMove DEF IInv, Kinds, Owners
  <2> QED BY <1>2, <1>3, <2>2, <2>4 DEF IInv
<1>5. CASE UNCHANGED <<got, slot>>
  <2>1. Types'
    BY <1>0, <1>2, <1>5 DEF IInv, Types
  <2>2. \A t \in Tasks, k \in Kinds, q \in Owners : At(k, q, t)' => At(k, q, t)
    BY <1>0, <1>1, <1>5 DEF IInv, Types, At
  <2>3. PlacesAreClaimed' /\ PlacesAreExclusive'
    BY <1>0, <2>2, PlacesShrink DEF IInv
  <2> QED BY <1>2, <1>3, <2>1, <2>3 DEF IInv
<1> QED BY <1>4, <1>5 DEF Wake

LEMMA DisconnectInv ==
  ASSUME IInv, NEW p \in Polls, Disconnect(p)
  PROVE  IInv'
<1> USE DEF engineVars, dispatchVars
<1>1. Types' /\ PendingIsNew'
  BY DEF IInv, Types, PendingIsNew, Disconnect
<1>2. PlacesAreClaimed' /\ PlacesAreExclusive'
  <2>1. \A t \in Tasks, k \in Kinds, q \in Owners : At(k, q, t)' => At(k, q, t)
    BY DEF IInv, Types, At, Disconnect
  <2> QED BY <2>1, PlacesShrink DEF IInv, Disconnect
<1>3. LastWaiterIsRegistered'
  BY WaitersStay DEF IInv, Inside, Disconnect
<1> QED BY <1>1, <1>2, <1>3 DEF IInv

LEMMA ReturnInv ==
  ASSUME IInv, NEW p \in Polls, Return(p)
  PROVE  IInv'
<1>0. UNCHANGED <<pending, claimed, newest, slot, seen, dgot, phase>>
  BY DEF Return, engineVars
<1>1. /\ pc[p] = "return" /\ pc' = [pc EXCEPT ![p] = "idle"]
      /\ got' = [got EXCEPT ![p] = {}]
      /\ dwaiter' \in Owners
  BY DEF Return, Goto, IInv, Types, Owners
<1>2. pc' \in [Polls -> PollPcs] /\ got' \in [Polls -> SUBSET Tasks] /\ PendingIsNew'
  BY <1>0, <1>1 DEF IInv, Types, PollPcs, PendingIsNew
<1>3. AgentOf[p] \in Agents /\ NULL \notin Tasks
  BY LongPollAssumption
<1>4. waiters' = [waiters EXCEPT ![AgentOf[p]] = IF @ = p THEN NULL ELSE @]
  BY DEF Return, Deregister
<1>5. waiters' \in [Agents -> Owners]
  BY <1>3, <1>4 DEF IInv, Types, Owners
<1>6. LastWaiterIsRegistered'
  <2>1. ASSUME running', NEW q \in Polls, Inside(q)', newest'[AgentOf[q]] = q
        PROVE  waiters'[AgentOf[q]] = q
    <3>1. AgentOf[q] \in Agents
      BY LongPollAssumption
    <3>2. q # p /\ Inside(q)
      BY <1>1, <2>1 DEF IInv, Types, Inside
    <3>3. running /\ newest[AgentOf[q]] = q
      BY <1>0, <2>1 DEF running
    <3>4. waiters[AgentOf[q]] = q
      BY <3>2, <3>3 DEF IInv, LastWaiterIsRegistered
    <3> QED BY <1>3, <1>4, <3>1, <3>2, <3>4 DEF IInv, Types
  <2> QED BY <2>1 DEF LastWaiterIsRegistered
<1>7. ASSUME NEW q \in Polls
      PROVE  /\ got'[q] = IF q = p THEN {} ELSE got[q]
             /\ pc'[q] # "idle" => pc[q] # "idle"
  BY <1>1 DEF IInv, Types
<1>8. CASE p \in Unified
  <2> DEFINE r == [tasks |-> got[p], changes |-> got[p] # {}]
  <2>1. /\ results' = [results EXCEPT ![p] = Append(results[p], r)]
        /\ UNCHANGED <<delivered, request>>
    BY <1>8 DEF Return
  <2>2. r \in Result /\ results[p] \in Seq(Result)
    BY DEF IInv, Types, Result
  <2>3. /\ results'[p] \in Seq(Result) /\ results'[p] = Append(results[p], r)
        /\ Len(results[p]) \in Nat /\ Len(results'[p]) = Len(results[p]) + 1
        /\ \A i \in 1 .. Len(results[p]) : results'[p][i] = results[p][i]
        /\ results'[p][Len(results[p]) + 1] = r
    BY <2>1, <2>2, AppendProperties, LenProperties DEF IInv, Types
  <2>4. Types'
    <3>1. results' \in [Polls -> Seq(Result)]
      BY <2>1, <2>3 DEF IInv, Types
    <3> QED BY <1>0, <1>1, <1>2, <1>5, <2>1, <3>1 DEF IInv, Types
  <2>5. \A i \in 1 .. Len(results'[p]), t \in Tasks :
          t \in results'[p][i].tasks =>
            \/ t \in got[p]
            \/ \E j \in 1 .. Len(results[p]) : t \in results[p][j].tasks
    BY <2>3
  <2>6. \A q \in Polls : q # p => results'[q] = results[q]
    BY <2>1 DEF IInv, Types
  <2>7. Moves("got", p, "results", p)
    <3> USE DEF Moves
    <3> TAKE t \in Tasks, k \in Kinds, q \in Owners
    <3> HAVE At(k, q, t)'
    <3>1. CASE k = "got"
      BY <1>0, <1>7, <3>1 DEF At
    <3>2. CASE k = "results"
      BY <1>0, <1>7, <2>1, <2>5, <2>6, <3>2 DEF At
    <3>3. CASE k \notin {"got", "results"}
      BY <1>0, <1>7, <2>1, <3>3 DEF At
    <3> QED BY <3>1, <3>2, <3>3
  <2>8. PlacesAreClaimed' /\ PlacesAreExclusive'
    BY <1>0, <2>7, PlacesMove DEF IInv, Kinds, Owners
  <2> QED BY <1>2, <1>6, <2>4, <2>8 DEF IInv
<1>9. CASE p \notin Unified
  <2>1. /\ delivered' = IF request[p] = "open" THEN delivered \cup got[p] ELSE delivered
        /\ request' = [request EXCEPT ![p] = IF @ = "open" THEN "answered" ELSE @]
        /\ UNCHANGED results
    BY <1>9 DEF Return
  <2>2. ASSUME NEW q \in Polls PROVE request'[q] = "open" => request[q] = "open"
    BY <2>1 DEF IInv, Types
  <2>3. Types'
    <3>1. /\ delivered' \subseteq Tasks
          /\ request' \in [Polls -> {"none", "open", "answered", "gone"}]
      BY <2>1 DEF IInv, Types
    <3> QED BY <1>0, <1>1, <1>2, <1>5, <2>1, <2>2, <3>1 DEF IInv, Types
  <2>4. Moves("got", p, "delivered", NULL)
    <3> USE DEF Moves
    <3> TAKE t \in Tasks, k \in Kinds, q \in Owners
    <3> HAVE At(k, q, t)'
    <3>1. CASE k = "got"
      BY <1>0, <1>7, <3>1 DEF At
    <3>2. CASE k = "delivered"
      BY <1>0, <1>7, <2>1, <2>2, <3>2 DEF At
    <3>3. CASE k \notin {"got", "delivered"}
      BY <1>0, <1>7, <2>1, <2>2, <3>3 DEF At
    <3> QED BY <3>1, <3>2, <3>3
  <2>5. PlacesAreClaimed' /\ PlacesAreExclusive'
    BY <1>0, <2>4, PlacesMove DEF IInv, Kinds, Owners
  <2> QED BY <1>2, <1>6, <2>3, <2>5 DEF IInv
<1> QED BY <1>8, <1>9

LEMMA ConfigReturnsInv ==
  ASSUME IInv, NEW p \in Polls, ConfigReturns(p)
  PROVE  IInv'
<1>0. UNCHANGED <<pending, claimed, delivered, waiters, newest, pc, got, slot, request, seen,
                  dgot, dwaiter, phase>>
  BY DEF ConfigReturns, engineVars, dispatchVars
<1>1. PICK c \in BOOLEAN :
        results' = [results EXCEPT ![p] = Append(results[p], [tasks |-> {}, changes |-> c])]
  BY DEF ConfigReturns
<1> DEFINE r == [tasks |-> {}, changes |-> c]
<1>2. r \in Result /\ results[p] \in Seq(Result)
  BY DEF IInv, Types, Result
<1>3. /\ results'[p] \in Seq(Result) /\ results'[p] = Append(results[p], r)
      /\ Len(results[p]) \in Nat /\ Len(results'[p]) = Len(results[p]) + 1
      /\ \A i \in 1 .. Len(results[p]) : results'[p][i] = results[p][i]
      /\ results'[p][Len(results[p]) + 1].tasks = {}
  BY <1>1, <1>2, AppendProperties, LenProperties DEF IInv, Types
<1>4. Types' /\ PendingIsNew'
  <2>1. results' \in [Polls -> Seq(Result)]
    BY <1>1, <1>3 DEF IInv, Types
  <2> QED BY <1>0, <2>1 DEF IInv, Types, PendingIsNew
<1>5. \A i \in 1 .. Len(results'[p]), t \in Tasks :
        t \in results'[p][i].tasks => \E j \in 1 .. Len(results[p]) : t \in results[p][j].tasks
  BY <1>3
<1>6. \A q \in Polls : q # p => results'[q] = results[q]
  BY <1>1 DEF IInv, Types
<1>7. \A t \in Tasks, k \in Kinds, q \in Owners : At(k, q, t)' => At(k, q, t)
  BY <1>0, <1>5, <1>6 DEF At
<1>8. PlacesAreClaimed' /\ PlacesAreExclusive'
  BY <1>0, <1>7, PlacesShrink DEF IInv
<1>9. LastWaiterIsRegistered'
  BY <1>0, WaitersStay DEF IInv, Inside
<1> QED BY <1>4, <1>8, <1>9 DEF IInv

\* executePoll receives a result of poll p without an answer.
LEMMA DropStep ==
  ASSUME IInv, NEW p \in Polls,
         UNCHANGED <<pending, claimed, delivered, waiters, newest, pc, got, slot, request, dgot,
                     dwaiter, phase>>,
         results' \in [Polls -> Seq(Result)], seen' \in [Polls -> Nat], seen'[p] <= 1,
         \A q \in Polls : q # p => results'[q] = results[q] /\ seen'[q] = seen[q],
         \A i \in 1 .. Len(results'[p]) : \E j \in 1 .. Len(results[p]) :
           results'[p][i] = results[p][j]
  PROVE  IInv'
<1>1. Types' /\ PendingIsNew'
  BY DEF IInv, Types, PendingIsNew
<1>2. \A t \in Tasks, k \in Kinds, q \in Owners : At(k, q, t)' => At(k, q, t)
  <2> TAKE t \in Tasks, k \in Kinds, q \in Owners
  <2> HAVE At(k, q, t)'
  <2>1. CASE k = "results"
    <3>1. q \in Polls /\ request[q] = "open"
      BY <2>1 DEF At
    <3>2. PICK i \in 1 .. Len(results'[q]) : t \in results'[q][i].tasks
      BY <2>1 DEF At
    <3>3. \E j \in 1 .. Len(results[q]) : results'[q][i] = results[q][j]
      BY <3>1
    <3> QED BY <2>1, <3>1, <3>2, <3>3 DEF At
  <2>2. CASE k # "results"
    BY <2>2 DEF At
  <2> QED BY <2>1, <2>2
<1>3. PlacesAreClaimed' /\ PlacesAreExclusive'
  BY <1>2, PlacesShrink DEF IInv
<1>4. LastWaiterIsRegistered'
  BY WaitersStay DEF IInv, Inside
<1> QED BY <1>1, <1>3, <1>4 DEF IInv

\* executePoll answers poll p with tasks that are in its results.
LEMMA AnswerStep ==
  ASSUME IInv, NEW p \in Polls, NEW S \in SUBSET Tasks, request[p] = "open", Answer(p, S),
         UNCHANGED <<pending, claimed, waiters, newest, pc, got, slot, dgot, dwaiter, phase>>,
         results' \in [Polls -> Seq(Result)], seen' \in [Polls -> Nat],
         \A q \in Polls : q # p => results'[q] = results[q] /\ seen'[q] = seen[q],
         \A t \in S : \E i \in 1 .. Len(results[p]) : t \in results[p][i].tasks
  PROVE  IInv'
<1>1. /\ request' \in [Polls -> {"none", "open", "answered", "gone"}]
      /\ request'[p] = "answered" /\ delivered' = delivered \cup S
      /\ \A q \in Polls : q # p => request'[q] = request[q]
  BY DEF IInv, Types, Answer
<1>2. Types' /\ PendingIsNew'
  <2>1. \A q \in Polls : request'[q] = "open" => seen'[q] <= 1
    BY <1>1 DEF IInv, Types
  <2> QED BY <1>1, <2>1 DEF IInv, Types, PendingIsNew
<1>3. Moves("results", p, "delivered", NULL)
  <2> USE DEF Moves
  <2> TAKE t \in Tasks, k \in Kinds, q \in Owners
  <2> HAVE At(k, q, t)'
  <2>1. CASE k = "results"
    <3>1. q \in Polls /\ request'[q] = "open" /\ q # p
      BY <1>1, <2>1 DEF At
    <3>2. request[q] = "open" /\ results'[q] = results[q]
      BY <1>1, <3>1
    <3> QED BY <2>1, <3>1, <3>2 DEF At
  <2>2. CASE k = "delivered"
    <3>1. q = NULL /\ (t \in delivered \/ t \in S)
      BY <1>1, <2>2 DEF At
    <3>2. t \in S => At("results", p, t)
      BY DEF At
    <3> QED BY <2>2, <3>1, <3>2 DEF At
  <2>3. CASE k \notin {"results", "delivered"}
    BY <2>3 DEF At
  <2> QED BY <2>1, <2>2, <2>3
<1>4. PlacesAreClaimed' /\ PlacesAreExclusive'
  <2>1. /\ "results" \in Kinds /\ "delivered" \in Kinds /\ p \in Owners /\ NULL \in Owners
        /\ PlacesAreClaimed /\ PlacesAreExclusive /\ claimed \subseteq claimed'
    BY DEF IInv, Kinds, Owners
  <2> QED BY <1>3, <2>1, PlacesMove
<1>5. LastWaiterIsRegistered'
  BY WaitersStay DEF IInv, Inside
<1> QED BY <1>2, <1>4, <1>5 DEF IInv

\* The tasks of results are tasks.
LEMMA TasksInAreTasks ==
  ASSUME NEW rs \in Seq(Result), NEW n \in Int
  PROVE  TasksIn(rs, n) \subseteq Tasks
<1> SUFFICES ASSUME NEW t \in TasksIn(rs, n) PROVE t \in Tasks
  OBVIOUS
<1>1. PICK i \in 1 .. Len(rs) : t \in rs[i].tasks
  BY TasksInResults
<1>2. rs[i] \in Result
  BY ElementOfSeq
<1> QED BY <1>1, <1>2 DEF Result

\* What is left of a sequence behind position m.
LEMMA RestIsSeq ==
  ASSUME NEW rs \in Seq(Result), NEW m \in Nat \ {0}
  PROVE  SubSeq(rs, m, Len(rs)) \in Seq(Result)
<1>1. Len(rs) \in Nat /\ \A i \in m .. Len(rs) : rs[i] \in Result
  BY ElementOfSeq, LenProperties
<1> QED BY <1>1, SubSeqProperties

LEMMA CollectInv ==
  ASSUME IInv, NEW p \in Polls, Collect(p)
  PROVE  IInv'
<1> DEFINE rs == results[p]
           r == Head(rs)
           remaining == 2 - seen[p] - 1
<1>1. /\ UNCHANGED <<pending, claimed, waiters, newest, pc, got, slot, dgot, dwaiter, phase>>
      /\ request[p] = "open" /\ rs # <<>>
      /\ seen' = [seen EXCEPT ![p] = @ + 1]
  BY DEF Collect, engineVars, dispatchVars
<1>2. rs \in Seq(Result) /\ seen[p] \in {0, 1} /\ Len(rs) \in Nat /\ remaining \in Nat
  <2>1. rs \in Seq(Result) /\ seen[p] \in Nat /\ seen[p] <= 1
    BY <1>1 DEF IInv, Types
  <2> QED BY <2>1, LenProperties
<1>3. /\ r = rs[1] /\ r \in Result /\ Len(rs) >= 1
      /\ Tail(rs) \in Seq(Result) /\ Len(Tail(rs)) = Len(rs) - 1
      /\ \A i \in 1 .. Len(Tail(rs)) : Tail(rs)[i] = rs[i + 1]
  <2>1. Len(rs) \in Nat \ {0}
    BY <1>1, <1>2, EmptySeq
  <2> QED BY <1>1, <1>2, <2>1, HeadTailProperties
<1>4. seen' \in [Polls -> Nat] /\ \A q \in Polls : q # p => seen'[q] = seen[q]
  BY <1>1, <1>2 DEF IInv, Types
<1>5. CASE r.changes
  <2>1. PICK ts \in Seq(Result) : ts = Tail(rs)
    BY <1>3
  <2> DEFINE S == r.tasks \cup TasksIn(ts, remaining)
             rest == SubSeq(rs, 2 + remaining, Len(rs))
  <2>2. Answer(p, S) /\ results' = [results EXCEPT ![p] = rest]
    BY <1>5, <2>1 DEF Collect
  <2> HIDE DEF remaining
  <2>3. S \in SUBSET Tasks
    <3>1. TasksIn(ts, remaining) \subseteq Tasks
      BY <1>2, TasksInAreTasks
    <3>2. r.tasks \subseteq Tasks
      BY <1>3 DEF Result
    <3> QED BY <3>1, <3>2
  <2>4. ASSUME NEW t \in S
        PROVE  \E i \in 1 .. Len(rs) : t \in rs[i].tasks
    <3>1. CASE t \in r.tasks
      BY <1>2, <1>3, <3>1
    <3>2. CASE t \in TasksIn(ts, remaining)
      <4>1. PICK i \in 1 .. Len(ts) : t \in ts[i].tasks
        BY <1>2, <3>2, TasksInResults
      <4> QED BY <1>2, <1>3, <2>1, <4>1
    <3> QED BY <3>1, <3>2
  <2>5. rest \in Seq(Result)
    BY <1>2, RestIsSeq
  <2>6. /\ results' \in [Polls -> Seq(Result)]
        /\ \A q \in Polls : q # p => results'[q] = results[q]
    BY <2>2, <2>5 DEF IInv, Types
  <2> HIDE DEF S, rest
  <2> QED BY <1>1, <1>4, <2>2, <2>3, <2>4, <2>6, AnswerStep
<1>6. CASE ~r.changes
  <2>1. results' = [results EXCEPT ![p] = Tail(rs)]
    BY <1>6 DEF Collect
  <2>2. /\ results' \in [Polls -> Seq(Result)] /\ results'[p] = Tail(rs)
        /\ \A q \in Polls : q # p => results'[q] = results[q]
    BY <1>3, <2>1 DEF IInv, Types
  <2>3. CASE remaining = 0
    <3>1. Answer(p, {})
      BY <1>6, <2>3 DEF Collect
    <3> DEFINE S == {}
    <3>2. S \in SUBSET Tasks /\ Answer(p, S)
      BY <3>1
    <3>3. \A t \in S : \E i \in 1 .. Len(results[p]) : t \in results[p][i].tasks
      OBVIOUS
    <3> HIDE DEF S
    <3> QED BY <1>1, <1>4, <2>2, <3>2, <3>3, AnswerStep
  <2>4. CASE remaining # 0
    <3>1. UNCHANGED <<request, delivered>>
      BY <1>6, <2>4 DEF Collect
    <3>2. seen'[p] <= 1
      BY <1>1, <1>2, <2>4 DEF IInv, Types
    <3>3. \A i \in 1 .. Len(results'[p]) : \E j \in 1 .. Len(rs) : results'[p][i] = rs[j]
      <4>1. PICK ts \in Seq(Result) : ts = Tail(rs)
        BY <1>3
      <4>2. \A i \in 1 .. Len(ts) : i + 1 \in 1 .. Len(rs) /\ ts[i] = rs[i + 1]
        BY <1>2, <1>3, <4>1
      <4> QED BY <2>2, <4>1, <4>2
    <3> QED BY <1>1, <1>4, <2>2, <3>1, <3>2, <3>3, DropStep
  <2> QED BY <2>3, <2>4
<1> QED BY <1>5, <1>6

LEMMA GiveUpInv ==
  ASSUME IInv, NEW p \in Polls, GiveUp(p)
  PROVE  IInv'
<1> DEFINE rs == results[p]
           remaining == 2 - seen[p] - 1
           S == TasksIn(rs, remaining)
           rest == SubSeq(rs, 1 + remaining, Len(rs))
<1>1. /\ UNCHANGED <<pending, claimed, waiters, newest, pc, got, slot, seen, dgot, dwaiter, phase>>
      /\ request[p] = "open"
      /\ Answer(p, S) /\ results' = [results EXCEPT ![p] = rest]
  BY DEF GiveUp, engineVars, dispatchVars
<1>2. rs \in Seq(Result) /\ remaining \in Nat
  BY <1>1 DEF IInv, Types
<1>3. S \in SUBSET Tasks
  BY <1>2, TasksInAreTasks
<1>4. \A t \in S : \E i \in 1 .. Len(rs) : t \in rs[i].tasks
  BY <1>2, TasksInResults
<1>5. rest \in Seq(Result)
  BY <1>2, RestIsSeq
<1>6. /\ results' \in [Polls -> Seq(Result)] /\ seen' \in [Polls -> Nat]
      /\ \A q \in Polls : q # p => results'[q] = results[q] /\ seen'[q] = seen[q]
  BY <1>1, <1>5 DEF IInv, Types
<1> HIDE DEF S, rest
<1> QED BY <1>1, <1>3, <1>4, <1>6, AnswerStep

LEMMA WakeClaimInv ==
  ASSUME IInv, WakeClaim
  PROVE  IInv'
<1>0. UNCHANGED <<delivered, waiters, newest, pc, got, slot, request, results, seen, phase>>
  BY DEF WakeClaim, pollVars
<1>1. LastWaiterIsRegistered'
  BY <1>0, WaitersStay DEF IInv, Inside
<1>2. ASSUME NEW t \in Tasks, ClaimTaskForAgent(dagent, t), dgot' = t, UNCHANGED dwaiter
      PROVE  IInv'
  <2>1. /\ t \notin claimed /\ claimed' = claimed \cup {t}
        /\ pending' \in Seq(Tasks) /\ PendingIsNew'
    BY <1>2, ClaimTakesNewTask DEF IInv
  <2>2. Types'
    BY <1>0, <1>2, <2>1 DEF IInv, Types
  <2>3. \A u \in Tasks, k \in Kinds, q \in Owners :
          At(k, q, u)' => At(k, q, u) \/ (k = "dispatcher" /\ q = NULL /\ u = t)
    BY <1>0, <1>2 DEF At
  <2>4. PlacesAreClaimed' /\ PlacesAreExclusive'
    BY <2>1, <2>3, PlacesClaim DEF IInv, Kinds, Owners
  <2> QED BY <1>1, <2>1, <2>2, <2>4 DEF IInv
<1>3. ASSUME UNCHANGED <<pending, claimed>>, NextWaiter
      PROVE  IInv'
  <2>1. dwaiter' = NULL /\ dgot' = NULL /\ NULL \notin Tasks
    BY <1>3, LongPollAssumption DEF NextWaiter
  <2>2. Types' /\ PendingIsNew'
    BY <1>0, <1>3, <2>1 DEF IInv, Types, PendingIsNew, Owners
  <2>3. \A u \in Tasks, k \in Kinds, q \in Owners : At(k, q, u)' => At(k, q, u)
    BY <1>0, <2>1 DEF At
  <2>4. PlacesAreClaimed' /\ PlacesAreExclusive'
    BY <1>3, <2>3, PlacesShrink DEF IInv
  <2> QED BY <1>1, <2>2, <2>4 DEF IInv
<1> QED BY <1>2, <1>3 DEF WakeClaim, ClaimsNothing, ClaimFails, engineVars

LEMMA WakeSendInv ==
  ASSUME IInv, WakeSend
  PROVE  IInv'
<1>0. /\ UNCHANGED <<pending, claimed, delivered, waiters, newest, pc, got, request, results, seen,
                     phase>>
      /\ dwaiter' = NULL /\ dgot' = NULL /\ NULL \notin Tasks
  BY LongPollAssumption DEF WakeSend, NextWaiter, engineVars
<1>1. LastWaiterIsRegistered' /\ PendingIsNew'
  BY <1>0, WaitersStay DEF IInv, Inside, PendingIsNew
<1>2. CASE Full
  <2>1. UNCHANGED slot
    BY <1>2 DEF WakeSend
  <2>2. Types'
    BY <1>0, <2>1 DEF IInv, Types, Owners
  <2>3. \A u \in Tasks, k \in Kinds, q \in Owners : At(k, q, u)' => At(k, q, u)
    BY <1>0, <2>1 DEF At
  <2>4. PlacesAreClaimed' /\ PlacesAreExclusive'
    BY <1>0, <2>3, PlacesShrink DEF IInv
  <2> QED BY <1>1, <2>2, <2>4 DEF IInv
<1>3. CASE ~Full
  <2>1. dwaiter \in Polls /\ slot' = [slot EXCEPT ![dwaiter] = dgot]
    BY <1>3 DEF WakeSend, Full, IInv, Types, Owners
  <2>2. Types'
    BY <1>0, <2>1 DEF IInv, Types, Owners
  <2>3. Moves("dispatcher", NULL, "slot", dwaiter)
    <3> USE DEF Moves
    <3> TAKE u \in Tasks, k \in Kinds, q \in Owners
    <3> HAVE At(k, q, u)'
    <3>1. CASE k = "slot"
      BY <1>0, <2>1, <3>1 DEF At, IInv, Types
    <3>2. CASE k = "dispatcher"
      BY <1>0, <3>2 DEF At
    <3>3. CASE k \notin {"slot", "dispatcher"}
      BY <1>0, <3>3 DEF At
    <3> QED BY <3>1, <3>2, <3>3
  <2>4. PlacesAreClaimed' /\ PlacesAreExclusive'
    <3>1. "dispatcher" \in Kinds /\ "slot" \in Kinds /\ NULL \in Owners /\ dwaiter \in Owners
      BY <2>1 DEF Kinds, Owners
    <3> QED BY <1>0, <2>3, <3>1, PlacesMove DEF IInv
  <2> QED BY <1>1, <2>2, <2>4 DEF IInv
<1> QED BY <1>2, <1>3

LEMMA ClearInv ==
  ASSUME IInv, Clear
  PROVE  IInv'
<1>1. /\ UNCHANGED <<pending, claimed, delivered, newest, pc, got, slot, request, results, seen,
                     dgot, dwaiter>>
      /\ waiters' = [a \in Agents |-> NULL] /\ phase' = "wait"
  BY DEF Clear, engineVars, dispatchVars
<1>2. Types' /\ PendingIsNew'
  BY <1>1 DEF IInv, Types, PendingIsNew, Owners
<1>3. PlacesAreClaimed' /\ PlacesAreExclusive'
  BY <1>1, PlacesShrink DEF IInv, At
<1>4. LastWaiterIsRegistered'
  BY <1>1 DEF LastWaiterIsRegistered, running
<1> QED BY <1>2, <1>3, <1>4 DEF IInv

-----------------------------------------------------------------------------
(***************************************************************************)
(* The theorems.                                                           *)
(***************************************************************************)

\* Every step preserves the invariant.
LEMMA StepInv == IInv /\ [Next]_vars => IInv'
<1> SUFFICES ASSUME IInv, [Next]_vars PROVE IInv'
  OBVIOUS
<1>1. ASSUME NEW t \in Tasks, Submit(t) PROVE IInv'
  BY <1>1, SubmitInv
<1>2. ASSUME NEW t \in Tasks, NotifyTaskSubmitted(t) PROVE IInv'
  <2>1. UNCHANGED <<placeVars, dwaiter, phase>>
    BY <1>2 DEF NotifyTaskSubmitted, placeVars, engineVars, pollVars, dispatchVars
  <2> QED BY <2>1, OtherSteps DEF IInv, Types, running
<1>3. ASSUME NEW p \in Polls, Start(p) PROVE IInv'
  BY <1>3, StartInv
<1>4. ASSUME NEW p \in Polls, PollStep(p) PROVE IInv'
  BY <1>4, ListInv, ClaimOneInv, RegisterInv, WakeInv, ReturnInv DEF PollStep
<1>5. ASSUME NEW p \in Polls, RequestStep(p) PROVE IInv'
  BY <1>5, ConfigReturnsInv, CollectInv, GiveUpInv DEF RequestStep
<1>6. ASSUME NEW p \in Polls, Deadline(p) PROVE IInv'
  <2>1. UNCHANGED <<placeVars, dwaiter, phase>>
    BY <1>6 DEF Deadline, placeVars, engineVars, dispatchVars
  <2> QED BY <2>1, OtherSteps DEF IInv, Types, running
<1>7. ASSUME NEW p \in Polls, Disconnect(p) PROVE IInv'
  BY <1>7, DisconnectInv
<1>8. ASSUME HandleNotification PROVE IInv'
  <2>1. UNCHANGED <<placeVars, dwaiter, phase>>
    BY <1>8 DEF HandleNotification, placeVars, engineVars, pollVars
  <2> QED BY <2>1, OtherSteps DEF IInv, Types, running
<1>9. ASSUME NEW a \in Agents, Visit(a) PROVE IInv'
  <2>1. UNCHANGED <<placeVars, phase>>
    BY <1>9 DEF Visit, placeVars, engineVars, pollVars
  <2>2. dwaiter' \in Owners
    BY <1>9 DEF Visit, IInv, Types
  <2> QED BY <2>1, <2>2, OtherSteps DEF running
<1>10. ASSUME WakeClaim PROVE IInv'
  BY <1>10, WakeClaimInv
<1>11. ASSUME WakeSend PROVE IInv'
  BY <1>11, WakeSendInv
<1>12. ASSUME Clear PROVE IInv'
  BY <1>12, ClearInv
<1>13. ASSUME Stop \/ DispatcherStops \/ Stopped \/ ServersStop \/ ShutdownReturns
       PROVE  IInv'
  <2>1. UNCHANGED <<placeVars, dwaiter>>
    BY <1>13 DEF Stop, DispatcherStops, Stopped, ServersStop, ShutdownReturns, placeVars,
       engineVars, pollVars, dispatchVars
  <2>2. running' => running
    BY <1>13 DEF Stop, DispatcherStops, Stopped, ServersStop, ShutdownReturns, running
  <2> QED BY <2>1, <2>2, OtherSteps DEF IInv, Types
<1>14. ASSUME UNCHANGED vars PROVE IInv'
  <2>1. UNCHANGED <<placeVars, dwaiter, phase>>
    BY <1>14 DEF vars, placeVars, pollVars, dispatchVars
  <2> QED BY <2>1, OtherSteps DEF IInv, Types, running
<1> QED BY <1>1, <1>2, <1>3, <1>4, <1>5, <1>6, <1>7, <1>8, <1>9, <1>10, <1>11, <1>12, <1>13,
           <1>14 DEF Next, Dispatch, ShutdownStep

\* The inductive invariant holds in every reachable state.
THEOREM Invariance == Spec => []IInv
BY InitInv, StepInv, PTL DEF Spec

\* The poll that registered last for its agent stays the registered waiter
\* while it waits: Deregister compares before it deletes (waiter_map.go).
THEOREM LastWaiterHolds == Spec => []LastWaiterIsRegistered
<1>1. IInv => LastWaiterIsRegistered
  BY DEF IInv
<1> QED BY <1>1, Invariance, PTL

\* A task in no queue is in at most one of the goroutines, channels and
\* answers that may hold it.
LEMMA OneHolder == IInv => TaskIsInOnePlace
<1> SUFFICES ASSUME IInv, NEW t \in Tasks PROVE Cardinality(Holders(t)) <= 1
  BY DEF TaskIsInOnePlace
<1> DEFINE Place(k, p) == IF k \in {"delivered", "dispatcher"} THEN <<k, t>> ELSE <<k, p>>
           H == Holders(t)
<1>1. \A h \in H : \/ h = <<"pending", t>> /\ t \in Range(pending)
                   \/ \E k \in Kinds, p \in Owners : At(k, p, t) /\ h = Place(k, p)
  <2> TAKE h \in H
  <2>1. CASE h = <<"results", h[2]>> /\ h[1] = "results"
    <3>1. h[2] \in Polls /\ t \in TasksIn(results[h[2]], 2) /\ request[h[2]] = "open"
      BY <2>1 DEF Holders
    <3>2. results[h[2]] \in Seq(Result) /\ 2 \in Int
      BY <3>1 DEF IInv, Types
    <3>3. \E i \in 1 .. Len(results[h[2]]) : t \in results[h[2]][i].tasks
      BY <3>1, <3>2, TasksInResults
    <3> QED BY <2>1, <3>1, <3>3 DEF At, Kinds, Owners
  <2>2. CASE ~(h = <<"results", h[2]>> /\ h[1] = "results")
    BY <2>2 DEF Holders, At, Kinds, Owners
  <2> QED BY <2>1, <2>2
<1>2. t \in Range(pending) => t \notin claimed
  BY LenProperties DEF IInv, Types, PendingIsNew, Range
<1>3. \A k \in Kinds, p \in Owners : At(k, p, t) => t \in claimed
  BY DEF IInv, PlacesAreClaimed
<1>4. \A k, l \in Kinds, p, q \in Owners : At(k, p, t) /\ At(l, q, t) => k = l /\ p = q
  BY DEF IInv, PlacesAreExclusive
<1>5. \A g, h \in H : g = h
  BY <1>1, <1>2, <1>3, <1>4
<1>6. H = {} \/ \E h : H = {h}
  BY <1>5
<1> HIDE DEF H
<1>7. Cardinality(H) = 0 \/ Cardinality(H) = 1
  BY <1>6, FS_EmptySet, FS_Singleton
<1> QED BY <1>7 DEF H

\* A task is never handed to two polls, to a poll and to the dispatcher, or
\* answered twice, however many polls claim for its agent at the same time.
THEOREM TaskIsInOnePlaceHolds == Spec => []TaskIsInOnePlace
BY OneHolder, Invariance, PTL

-----------------------------------------------------------------------------
(***************************************************************************)
(* No wake-up is lost.                                                      *)
(***************************************************************************)

\* What WaiterIsWoken depends on: events are published, no claim fails, notifyCh has room
\* for all tasks, and a page of the pending tasks shows one of the agent's if there is one.
NoticeSetting ==
  /\ Subscribed /\ MaxFailures = 0
  /\ IsFiniteSet(Tasks) /\ Cardinality(Tasks) <= NotifyCap
  /\ \/ Cardinality(Tasks) <= PageLimit
     \/ 1 <= PageLimit /\ \A t \in Tasks : Target[t] = NULL

\* A task is announced once: its event is on its way or in the channel, not both.
Announced ==
  /\ events \subseteq Tasks /\ notifyCh \in Seq(Tasks)
  /\ \A i, j \in 1 .. Len(notifyCh) : notifyCh[i] = notifyCh[j] => i = j
  /\ \A i \in 1 .. Len(notifyCh) : notifyCh[i] \notin events
  /\ \A t \in events \cup Range(notifyCh) : t \in Range(pending) \cup claimed

\* The dispatcher works for the agent of its waiter, and visits all before the next.
Dispatching ==
  /\ dtodo \subseteq Agents /\ (dpc \in {"idle", "stopped"} => dtodo = {})
  /\ dwaiter # NULL => dpc \in {"claim", "send"} /\ AgentOf[dwaiter] = dagent
  /\ dpc = "send" => dgot \in Tasks
  /\ \A a \in Agents : waiters[a] # NULL => AgentOf[waiters[a]] = a
  /\ ctxDone \in [Polls -> BOOLEAN] /\ failures \in Nat

\* Poll p waits for a task t that it could have, and will look for it.
Waits(p, t) ==
  /\ running /\ t \in Range(pending)
  /\ pc[p] = "wait" /\ slot[p] = NULL /\ ~ctxDone[p]
  /\ waiters[AgentOf[p]] = p /\ For(t, AgentOf[p])
Soon(p, t) ==
  \/ t \in events \cup Range(notifyCh)
  \/ AgentOf[p] \in dtodo
  \/ dwaiter = p /\ dpc \in {"claim", "send"}


\* A poll that waits has nothing to wait for that it would not hear of.
NothingIsMissed == \A p \in Polls, t \in Tasks : Waits(p, t) => Soon(p, t)

\* A sequence without repetitions is no longer than its elements are many.
LEMMA UniqueLength ==
  ASSUME NEW T, IsFiniteSet(T), NEW s \in Seq(T),
         \A i, j \in 1 .. Len(s) : s[i] = s[j] => i = j
  PROVE  Len(s) <= Cardinality(T)
<1>1. Len(s) \in Nat /\ DOMAIN s = 1 .. Len(s) /\ s \in [1 .. Len(s) -> T]
  BY LenProperties, ElementOfSeq
<1>2. s \in Injection(1 .. Len(s), T)
  BY <1>1 DEF Injection, IsInjective
<1>3. Cardinality(1 .. Len(s)) <= Cardinality(T)
  BY <1>2, FS_Injection
<1>4. Cardinality(1 .. Len(s)) = Len(s)
  BY <1>1, FS_Interval
<1> QED BY <1>3, <1>4

\* A sequence of different elements without t is shorter than a set with t.
LEMMA RoomForAnother ==
  ASSUME NEW T, IsFiniteSet(T), NEW s \in Seq(T), NEW t \in T,
         \A i, j \in 1 .. Len(s) : s[i] = s[j] => i = j,
         \A i \in 1 .. Len(s) : s[i] # t
  PROVE  Len(s) < Cardinality(T)
<1>1. Len(s) \in Nat /\ s \in [1 .. Len(s) -> T \ {t}]
  BY LenProperties, ElementOfSeq
<1>2. s \in Seq(T \ {t})
  BY <1>1, SeqDef
<1>3. IsFiniteSet(T \ {t}) /\ Cardinality(T \ {t}) = Cardinality(T) - 1
  BY FS_RemoveElement
<1>4. Len(s) <= Cardinality(T \ {t})
  BY <1>2, <1>3, UniqueLength
<1> QED BY <1>1, <1>3, <1>4, FS_CardinalityType

\* The page is not cut before the agent's tasks.
LEMMA PageShows ==
  ASSUME NoticeSetting, IInv, NEW a \in Agents, NEW t \in Range(pending), For(t, a)
  PROVE  Cardinality(GetPendingTasks(a)) # 0
<1>1. pending \in Seq(Tasks) /\ Len(pending) \in Nat /\ PageLimit \in Nat
  BY LongPollAssumption, LenProperties DEF IInv, Types
<1>2. Range(pending) = {pending[i] : i \in 1 .. Len(pending)}
  BY <1>1, LenProperties DEF Range
<1>3. PICK i \in 1 .. Len(pending) : t = pending[i]
  BY <1>2
<1>4. \E u \in Tasks : u \in Range(First(pending, PageLimit)) /\ For(u, a)
  <2>1. CASE Len(pending) <= PageLimit
    <3>1. First(pending, PageLimit) = pending
      BY <2>1 DEF First
    <3> QED BY <1>1, <1>3, <3>1, ElementOfSeq
  <2>2. CASE Len(pending) > PageLimit
    <3>1. Len(pending) <= Cardinality(Tasks) /\ Cardinality(Tasks) \in Nat
      BY <1>1, UniqueLength, FS_CardinalityType DEF NoticeSetting, IInv, PendingIsNew
    <3>2. 1 <= PageLimit /\ \A u \in Tasks : Target[u] = NULL
      BY <1>1, <2>2, <3>1 DEF NoticeSetting
    <3>3. First(pending, PageLimit) = SubSeq(pending, 1, PageLimit)
      BY <1>1, <2>2 DEF First
    <3>4. \A j \in 1 .. PageLimit : pending[j] \in Tasks
      BY <1>1, <2>2, ElementOfSeq
    <3>5. /\ SubSeq(pending, 1, PageLimit) \in Seq(Tasks)
          /\ Len(SubSeq(pending, 1, PageLimit)) = PageLimit
          /\ SubSeq(pending, 1, PageLimit)[1] = pending[1]
      BY <1>1, <3>2, <3>4, SubSeqProperties
    <3>6. 1 \in DOMAIN SubSeq(pending, 1, PageLimit)
      BY <3>2, <3>5, LenProperties
    <3>7. pending[1] \in Range(First(pending, PageLimit))
      BY <3>3, <3>5, <3>6 DEF Range
    <3>8. pending[1] \in Tasks /\ For(pending[1], a)
      BY <1>1, <3>2, <3>4 DEF For
    <3> QED BY <3>7, <3>8
  <2> QED BY <1>1, <2>1, <2>2
<1>5. Range(First(pending, PageLimit)) \subseteq Tasks
  <2>1. CASE Len(pending) <= PageLimit
    BY <1>1, <1>2, <2>1, ElementOfSeq DEF First
  <2>2. CASE Len(pending) > PageLimit
    <3>1. \A j \in 1 .. PageLimit : pending[j] \in Tasks
      BY <1>1, <2>2, ElementOfSeq
    <3>2. SubSeq(pending, 1, PageLimit) \in Seq(Tasks)
      BY <1>1, <3>1, SubSeqProperties
    <3>3. First(pending, PageLimit) = SubSeq(pending, 1, PageLimit)
      BY <1>1, <2>2 DEF First
    <3> QED BY <3>2, <3>3, ElementOfSeq, LenProperties DEF Range
  <2> QED BY <1>1, <2>1, <2>2
<1>6. GetPendingTasks(a) \subseteq Tasks /\ GetPendingTasks(a) # {}
  BY <1>4, <1>5 DEF GetPendingTasks
<1>7. IsFiniteSet(GetPendingTasks(a))
  BY <1>6, FS_Subset DEF NoticeSetting
<1> QED BY <1>6, <1>7, FS_EmptySet

\* A claim takes one task away, and it is claimed then.
LEMMA ClaimTakesOne ==
  ASSUME IInv, NEW a, NEW u \in Tasks, ClaimTaskForAgent(a, u)
  PROVE  /\ Range(pending') \subseteq Range(pending)
         /\ Range(pending) \cup claimed \subseteq Range(pending') \cup claimed'
         /\ claimed \subseteq claimed'
<1>1. PICK i \in DOMAIN pending : pending[i] = u /\ pending' = RemoveAt(pending, i)
  BY DEF ClaimTaskForAgent
<1>2. /\ pending \in Seq(Tasks) /\ i \in 1 .. Len(pending)
      /\ Len(pending) \in Nat /\ DOMAIN pending = 1 .. Len(pending)
  BY <1>1, LenProperties DEF IInv, Types
<1>3. /\ pending' \in Seq(Tasks) /\ Len(pending') = Len(pending) - 1
      /\ \A j \in 1 .. Len(pending) - 1 :
           pending'[j] = IF j < i THEN pending[j] ELSE pending[j + 1]
  BY <1>1, <1>2, RemoveAtProperties
<1>4. DOMAIN pending' = 1 .. Len(pending) - 1
  BY <1>3, LenProperties
<1>5. ASSUME NEW j \in 1 .. Len(pending) - 1
      PROVE  \E m \in 1 .. Len(pending) : pending'[j] = pending[m]
  BY <1>2, <1>3
<1>6. ASSUME NEW m \in 1 .. Len(pending), m # i
      PROVE  \E j \in 1 .. Len(pending) - 1 : pending'[j] = pending[m]
  <2>1. CASE m < i
    BY <1>2, <1>3, <2>1
  <2>2. CASE ~ m < i
    <3>1. m - 1 \in 1 .. Len(pending) - 1 /\ ~(m - 1 < i) /\ (m - 1) + 1 = m
      BY <1>2, <1>6, <2>2
    <3> QED BY <1>3, <3>1
  <2> QED BY <2>1, <2>2
<1>7. Range(pending') \subseteq Range(pending)
  BY <1>2, <1>4, <1>5 DEF Range
<1>8. Range(pending) \subseteq Range(pending') \cup {u}
  BY <1>1, <1>2, <1>4, <1>6 DEF Range
<1>9. claimed' = claimed \cup {u}
  BY DEF ClaimTaskForAgent
<1> QED BY <1>7, <1>8, <1>9

\* A submission adds its task to the pending ones, wherever it is put.
LEMMA SubmitAdds ==
  ASSUME IInv, NEW t \in Tasks, Submit(t)
  PROVE  /\ Range(pending') = {t} \cup Range(pending)
         /\ t \notin Range(pending) \cup claimed
<1>1. pending \in Seq(Tasks) /\ Len(pending) \in Nat /\ DOMAIN pending = 1 .. Len(pending)
  BY LenProperties DEF IInv, Types
<1>2. <<t>> \in Seq(Tasks) /\ Len(<<t>>) = 1 /\ <<t>>[1] = t
  OBVIOUS
<1>3. /\ pending' \in Seq(Tasks) /\ Len(pending') = 1 + Len(pending)
      /\ \A i \in 1 .. 1 + Len(pending) :
           pending'[i] = IF i <= 1 THEN <<t>>[i] ELSE pending[i - 1]
  BY <1>1, <1>2, ConcatProperties DEF Submit
<1>4. DOMAIN pending' = 1 .. 1 + Len(pending)
  BY <1>3, LenProperties
<1>5. pending'[1] = t /\ 1 \in DOMAIN pending'
  BY <1>1, <1>2, <1>3, <1>4
<1>6. \A i \in 1 .. Len(pending) : i + 1 \in DOMAIN pending' /\ pending'[i + 1] = pending[i]
  BY <1>1, <1>3, <1>4
<1>7. \A j \in DOMAIN pending' : pending'[j] = t \/ \E i \in 1 .. Len(pending) : pending'[j] = pending[i]
  <2> TAKE j \in DOMAIN pending'
  <2>1. CASE j = 1
    BY <1>5, <2>1
  <2>2. CASE j # 1
    <3>1. j - 1 \in 1 .. Len(pending) /\ pending'[j] = pending[j - 1]
      BY <1>1, <1>3, <1>4, <2>2
    <3> QED BY <3>1
  <2> QED BY <2>1, <2>2
<1>8. Range(pending') = {t} \cup Range(pending)
  BY <1>1, <1>5, <1>6, <1>7 DEF Range
<1> QED BY <1>8 DEF Submit

\* What a channel holds after a send and after a receive.
LEMMA AppendAdds ==
  ASSUME NEW s \in Seq(Tasks), NEW t \in Tasks
  PROVE  /\ Append(s, t) \in Seq(Tasks) /\ Range(Append(s, t)) = Range(s) \cup {t}
         /\ Len(Append(s, t)) = Len(s) + 1 /\ Append(s, t)[Len(s) + 1] = t
         /\ \A i \in 1 .. Len(s) : Append(s, t)[i] = s[i]
<1>1. /\ Append(s, t) \in Seq(Tasks) /\ Len(s) \in Nat
      /\ Len(Append(s, t)) = Len(s) + 1 /\ Append(s, t)[Len(s) + 1] = t
      /\ \A i \in 1 .. Len(s) : Append(s, t)[i] = s[i]
  BY AppendProperties, LenProperties
<1>2. DOMAIN s = 1 .. Len(s) /\ DOMAIN Append(s, t) = 1 .. Len(s) + 1
  BY <1>1, LenProperties
<1>3. Range(Append(s, t)) = Range(s) \cup {t}
  <2>1. \A i \in 1 .. Len(s) + 1 : i \in 1 .. Len(s) \/ i = Len(s) + 1
    BY <1>1
  <2>2. \A i \in 1 .. Len(s) : i \in 1 .. Len(s) + 1
    BY <1>1
  <2>3. Len(s) + 1 \in 1 .. Len(s) + 1
    BY <1>1
  <2> QED BY <1>1, <1>2, <2>1, <2>2, <2>3 DEF Range
<1> QED BY <1>1, <1>3

\* A sequence loses its head, and nothing else, when it is taken off.
LEMMA TailTakes ==
  ASSUME NEW s \in Seq(Tasks), s # <<>>
  PROVE  /\ Tail(s) \in Seq(Tasks) /\ Head(s) \in Tasks
         /\ Range(s) = Range(Tail(s)) \cup {Head(s)}
         /\ Len(Tail(s)) = Len(s) - 1 /\ Len(s) \in Nat
         /\ \A i \in 1 .. Len(s) - 1 : Tail(s)[i] = s[i + 1]
<1>1. /\ Tail(s) \in Seq(Tasks) /\ Len(s) \in Nat /\ Len(s) > 0
      /\ Len(Tail(s)) = Len(s) - 1 /\ \A i \in 1 .. Len(s) - 1 : Tail(s)[i] = s[i + 1]
      /\ Head(s) = s[1] /\ Head(s) \in Tasks
  BY HeadTailProperties, LenProperties, EmptySeq
<1>2. DOMAIN s = 1 .. Len(s) /\ DOMAIN Tail(s) = 1 .. Len(s) - 1
  BY <1>1, LenProperties
<1>3. Range(s) = Range(Tail(s)) \cup {Head(s)}
  <2>1. \A i \in 1 .. Len(s) : i = 1 \/ (i - 1 \in 1 .. Len(s) - 1 /\ s[i] = Tail(s)[i - 1])
    BY <1>1
  <2>2. \A i \in 1 .. Len(s) - 1 : i + 1 \in 1 .. Len(s)
    BY <1>1
  <2>3. 1 \in 1 .. Len(s)
    BY <1>1
  <2>4. Range(s) = {s[i] : i \in 1 .. Len(s)}
        /\ Range(Tail(s)) = {Tail(s)[i] : i \in 1 .. Len(s) - 1}
    BY <1>2 DEF Range
  <2>5. \A x \in Range(s) : x \in Range(Tail(s)) \cup {Head(s)}
    BY <1>1, <2>1, <2>4
  <2>6. \A x \in Range(Tail(s)) : x \in Range(s)
    BY <1>1, <2>2, <2>4
  <2> QED BY <1>1, <2>3, <2>4, <2>5, <2>6
<1> QED BY <1>1, <1>3

\* What is neither submitted nor claimed stays so, and nothing is announced.
LEMMA AnnouncedStays ==
  ASSUME Announced, UNCHANGED <<events, notifyCh>>,
         Range(pending) \cup claimed \subseteq Range(pending') \cup claimed'
  PROVE  Announced'
BY DEF Announced

\* A submitted task has an event.
LEMMA SubmitAnnounced ==
  ASSUME NoticeSetting, IInv, Announced, NEW t \in Tasks, Submit(t)
  PROVE  Announced'
<1>1. Range(pending') = {t} \cup Range(pending) /\ t \notin Range(pending) \cup claimed
  BY SubmitAdds
<1>2. events' = events \cup {t} /\ notifyCh' = notifyCh /\ claimed' = claimed
  BY DEF Submit, NoticeSetting
<1>3. DOMAIN notifyCh = 1 .. Len(notifyCh) /\ t \notin Range(notifyCh)
  BY <1>1, LenProperties DEF Announced
<1>4. \A i \in 1 .. Len(notifyCh) : notifyCh[i] # t
  BY <1>3 DEF Range
<1> QED BY <1>1, <1>2, <1>4 DEF Announced

\* A notification finds room in the channel while the dispatcher runs.
LEMMA NotifyAnnounced ==
  ASSUME NoticeSetting, IInv, Announced, NEW t \in Tasks, NotifyTaskSubmitted(t)
  PROVE  Announced' /\ (running => t \in Range(notifyCh')) /\ Range(notifyCh) \subseteq Range(notifyCh')
<1>0. /\ t \in events /\ events' = events \ {t} /\ UNCHANGED <<pending, claimed>>
      /\ notifyCh' = IF running /\ HasRoom THEN Append(notifyCh, t) ELSE notifyCh
  BY DEF NotifyTaskSubmitted, engineVars
<1>1. /\ notifyCh \in Seq(Tasks) /\ Len(notifyCh) \in Nat
      /\ \A i, j \in 1 .. Len(notifyCh) : notifyCh[i] = notifyCh[j] => i = j
      /\ \A i \in 1 .. Len(notifyCh) : notifyCh[i] # t
  BY <1>0, LenProperties DEF Announced
<1>2. HasRoom
  <2>1. Len(notifyCh) < Cardinality(Tasks)
    BY <1>1, RoomForAnother DEF NoticeSetting
  <2> QED BY <1>1, <2>1, LongPollAssumption, FS_CardinalityType DEF HasRoom, NoticeSetting
<1>3. CASE running
  <2>1. notifyCh' = Append(notifyCh, t)
    BY <1>0, <1>2, <1>3
  <2>2. /\ notifyCh' \in Seq(Tasks) /\ Range(notifyCh') = Range(notifyCh) \cup {t}
        /\ Len(notifyCh') = Len(notifyCh) + 1 /\ notifyCh'[Len(notifyCh) + 1] = t
        /\ \A i \in 1 .. Len(notifyCh) : notifyCh'[i] = notifyCh[i]
    BY <1>1, <2>1, AppendAdds
  <2>3. \A i \in 1 .. Len(notifyCh') : i \in 1 .. Len(notifyCh) \/ i = Len(notifyCh) + 1
    BY <1>1, <2>2
  <2>4. \A i, j \in 1 .. Len(notifyCh') : notifyCh'[i] = notifyCh'[j] => i = j
    BY <1>1, <2>2, <2>3
  <2>5. \A i \in 1 .. Len(notifyCh') : notifyCh'[i] \notin events'
    BY <1>0, <2>2, <2>3 DEF Announced
  <2> QED BY <1>0, <2>2, <2>4, <2>5 DEF Announced
<1>4. CASE ~running
  BY <1>0, <1>4 DEF Announced
<1> QED BY <1>3, <1>4

\* The dispatcher takes one notification off the channel.
LEMMA HandleAnnounced ==
  ASSUME IInv, Announced, HandleNotification
  PROVE  Announced' /\ Range(notifyCh) = Range(notifyCh') \cup {Head(notifyCh)}
<1>0. /\ notifyCh \in Seq(Tasks) /\ notifyCh # <<>> /\ notifyCh' = Tail(notifyCh)
      /\ UNCHANGED <<events, pending, claimed>>
  BY DEF HandleNotification, Announced, engineVars
<1>1. /\ notifyCh' \in Seq(Tasks) /\ Range(notifyCh) = Range(notifyCh') \cup {Head(notifyCh)}
      /\ Len(notifyCh') = Len(notifyCh) - 1 /\ Len(notifyCh) \in Nat
      /\ \A i \in 1 .. Len(notifyCh) - 1 : notifyCh'[i] = notifyCh[i + 1]
  BY <1>0, TailTakes
<1>2. \A i \in 1 .. Len(notifyCh') : i + 1 \in 1 .. Len(notifyCh)
  BY <1>1
<1>3. \A i, j \in 1 .. Len(notifyCh') : notifyCh'[i] = notifyCh'[j] => i = j
  <2> TAKE i, j \in 1 .. Len(notifyCh')
  <2> HAVE notifyCh'[i] = notifyCh'[j]
  <2>1. i + 1 = j + 1
    BY <1>1, <1>2 DEF Announced
  <2> QED BY <1>1, <2>1
<1>4. \A i \in 1 .. Len(notifyCh') : notifyCh'[i] \notin events'
  BY <1>0, <1>1, <1>2 DEF Announced
<1> QED BY <1>0, <1>1, <1>3, <1>4 DEF Announced

\* The dispatcher stands still, and a poll whose context is over may be its waiter.
LEMMA DispatchingStays ==
  ASSUME Dispatching, UNCHANGED <<dpc, dtodo, dagent, dgot>>,
         dwaiter' \in {dwaiter, NULL}, failures' \in Nat,
         ctxDone' \in [Polls -> BOOLEAN],
         \A a \in Agents : waiters'[a] # NULL => AgentOf[waiters'[a]] = a
  PROVE  Dispatching'
BY DEF Dispatching

\* Who waits has waited before, and what was on its way still is.
LEMMA MissedNotStays ==
  ASSUME NothingIsMissed,
         \A p \in Polls, t \in Tasks : Waits(p, t)' => Waits(p, t) /\ (Soon(p, t) => Soon(p, t)')
  PROVE  NothingIsMissed'
BY DEF NothingIsMissed

\* Whatever the polls, their requests and the shutdown do, the dispatcher stands still.
LEMMA DispatchingStep ==
  ASSUME IInv, Dispatching, [Next]_vars
  PROVE  Dispatching'
<1>0. /\ waiters \in [Agents -> Owners] /\ ctxDone \in [Polls -> BOOLEAN] /\ failures \in Nat
      /\ AgentOf \in [Polls -> Agents] /\ NULL \notin Polls
      /\ \A a \in Agents : waiters[a] # NULL => AgentOf[waiters[a]] = a
  BY LongPollAssumption DEF IInv, Types, Dispatching
<1>1. ASSUME NEW t \in Tasks, Submit(t) \/ NotifyTaskSubmitted(t) PROVE Dispatching'
  <2>1. UNCHANGED <<dispatchVars, failures, ctxDone, waiters>>
    BY <1>1 DEF Submit, NotifyTaskSubmitted, engineVars, pollVars
  <2> QED BY <1>0, <2>1, DispatchingStays DEF dispatchVars
<1>2. ASSUME NEW p \in Polls,
             \/ Start(p) \/ List(p) \/ ClaimOne(p) \/ Wake(p) \/ RequestStep(p)
             \/ Deadline(p) \/ Disconnect(p)
      PROVE  Dispatching'
  <2>1. UNCHANGED <<dispatchVars, waiters>>
    BY <1>2 DEF Start, List, ClaimOne, Wake, RequestStep, ConfigReturns, Collect, GiveUp,
       Deadline, Disconnect
  <2>2. failures' \in {failures, failures + 1}
    BY <1>2 DEF Start, List, ClaimOne, Wake, RequestStep, ConfigReturns, Collect, GiveUp,
       Deadline, Disconnect, engineVars, ClaimTaskForAgent, ClaimsNothing, ClaimFails
  <2>3. ctxDone' \in {ctxDone, [ctxDone EXCEPT ![p] = TRUE], [ctxDone EXCEPT ![p] = FALSE]}
    BY <1>2 DEF Start, List, ClaimOne, Wake, RequestStep, ConfigReturns, Collect, GiveUp,
       Deadline, Disconnect, Answer
  <2>4. ctxDone' \in [Polls -> BOOLEAN]
    <3>1. CASE ctxDone' = ctxDone
      BY <1>0, <3>1
    <3>2. CASE ctxDone' = [ctxDone EXCEPT ![p] = TRUE]
      BY <1>0, <3>2
    <3>3. CASE ctxDone' = [ctxDone EXCEPT ![p] = FALSE]
      BY <1>0, <3>3
    <3> QED BY <2>3, <3>1, <3>2, <3>3
  <2>5. failures' \in Nat
    BY <1>0, <2>2
  <2>6. \A a \in Agents : waiters'[a] # NULL => AgentOf[waiters'[a]] = a
    BY <1>0, <2>1
  <2>7. UNCHANGED <<dpc, dtodo, dagent, dgot>> /\ dwaiter' = dwaiter
    BY <2>1 DEF dispatchVars
  <2> QED BY <2>4, <2>5, <2>6, <2>7, DispatchingStays
<1>3. ASSUME NEW p \in Polls, Register(p) PROVE Dispatching'
  <2>1. /\ UNCHANGED <<dispatchVars, failures, ctxDone>>
        /\ waiters' = [waiters EXCEPT ![AgentOf[p]] = p]
    BY <1>3 DEF Register, engineVars
  <2>2. \A a \in Agents : waiters'[a] # NULL => AgentOf[waiters'[a]] = a
    BY <1>0, <2>1
  <2> QED BY <1>0, <2>1, <2>2, DispatchingStays DEF dispatchVars
<1>4. ASSUME NEW p \in Polls, Return(p) PROVE Dispatching'
  <2>1. /\ UNCHANGED <<dpc, dtodo, dagent, dgot, failures, ctxDone>>
        /\ waiters' = [waiters EXCEPT ![AgentOf[p]] = IF @ = p THEN NULL ELSE @]
        /\ dwaiter' \in {dwaiter, NULL}
    BY <1>4 DEF Return, Deregister, engineVars
  <2>2. \A a \in Agents : waiters'[a] # NULL => AgentOf[waiters'[a]] = a
    BY <1>0, <2>1
  <2> QED BY <1>0, <2>1, <2>2, DispatchingStays
<1>5. CASE HandleNotification
  <2>1. /\ UNCHANGED <<dwaiter, dagent, dgot, failures, ctxDone, waiters>>
        /\ dpc = "idle" /\ dtodo' \subseteq Agents
        /\ dpc' = IF dtodo' = {} THEN "idle" ELSE "range"
    BY <1>5 DEF HandleNotification, Notified, engineVars, pollVars
  <2> QED BY <2>1 DEF Dispatching
<1>6. ASSUME NEW a \in Agents, Visit(a) PROVE Dispatching'
  <2>1. /\ UNCHANGED <<dgot, failures, ctxDone, waiters>>
        /\ dpc = "range" /\ dtodo' = dtodo \ {a}
        /\ IF waiters[a] # NULL THEN dpc' = "claim" /\ dagent' = a /\ dwaiter' = waiters[a]
           ELSE dpc' = (IF dtodo' = {} THEN "idle" ELSE "range") /\ UNCHANGED <<dagent, dwaiter>>
    BY <1>6 DEF Visit, engineVars, pollVars
  <2> QED BY <1>0, <2>1 DEF Dispatching
<1>7. CASE WakeClaim
  <2>1. UNCHANGED <<dtodo, ctxDone, waiters>> /\ dpc = "claim" /\ failures' \in {failures, failures + 1}
    BY <1>7 DEF WakeClaim, engineVars, pollVars, ClaimTaskForAgent, ClaimsNothing, ClaimFails
  <2>2. CASE dpc' = "send" /\ dgot' \in Tasks /\ UNCHANGED <<dagent, dwaiter>>
    BY <1>0, <2>1, <2>2 DEF Dispatching
  <2>3. CASE NextWaiter
    BY <1>0, <2>1, <2>3 DEF Dispatching, NextWaiter
  <2> QED BY <1>7, <2>2, <2>3 DEF WakeClaim
<1>8. CASE WakeSend
  <2>1. UNCHANGED <<dtodo, ctxDone, waiters, failures>> /\ NextWaiter
    BY <1>8 DEF WakeSend, engineVars
  <2> QED BY <1>0, <2>1 DEF Dispatching, NextWaiter
<1>9. CASE DispatcherStops
  <2>1. /\ UNCHANGED <<dtodo, dwaiter, dagent, dgot, ctxDone, waiters, failures>>
        /\ dpc = "idle" /\ dpc' = "stopped"
    BY <1>9 DEF DispatcherStops, engineVars, pollVars
  <2> QED BY <1>0, <2>1 DEF Dispatching
<1>10. CASE Clear
  <2>1. UNCHANGED <<dispatchVars, failures, ctxDone>> /\ waiters' = [a \in Agents |-> NULL]
    BY <1>10 DEF Clear, engineVars
  <2> QED BY <1>0, <2>1, DispatchingStays DEF dispatchVars
<1>11. CASE Stop \/ Stopped \/ ServersStop \/ ShutdownReturns \/ UNCHANGED vars
  <2>1. UNCHANGED <<dispatchVars, failures, ctxDone, waiters>>
    BY <1>11 DEF Stop, Stopped, ServersStop, ShutdownReturns, engineVars, pollVars, vars
  <2> QED BY <1>0, <2>1, DispatchingStays DEF dispatchVars
<1> QED BY <1>1, <1>2, <1>3, <1>4, <1>5, <1>6, <1>7, <1>8, <1>9, <1>10, <1>11
        DEF Next, PollStep, Dispatch, ShutdownStep

\* Every step keeps the events and notifications of different tasks.
LEMMA AnnouncedStep ==
  ASSUME NoticeSetting, IInv, Announced, [Next]_vars
  PROVE  Announced'
<1>1. ASSUME NEW t \in Tasks, Submit(t) \/ NotifyTaskSubmitted(t) PROVE Announced'
  BY <1>1, SubmitAnnounced, NotifyAnnounced
<1>2. CASE HandleNotification
  BY <1>2, HandleAnnounced
<1>3. ASSUME UNCHANGED <<events, notifyCh>>,
             \/ UNCHANGED <<pending, claimed>>
             \/ \E a \in Agents \cup {dagent}, u \in Tasks : ClaimTaskForAgent(a, u)
      PROVE  Announced'
  <2>1. Range(pending) \cup claimed \subseteq Range(pending') \cup claimed'
    BY <1>3, ClaimTakesOne
  <2> QED BY <1>3, <2>1, AnnouncedStays
<1>4. ASSUME NEW p \in Polls, Start(p) \/ PollStep(p) \/ RequestStep(p) \/ Deadline(p) \/ Disconnect(p)
      PROVE  Announced'
  <2>1. UNCHANGED <<events, notifyCh>>
    BY <1>4 DEF Start, PollStep, List, ClaimOne, Register, Wake, Return, RequestStep,
       ConfigReturns, Collect, GiveUp, Deadline, Disconnect
  <2>2. AgentOf[p] \in Agents
    BY LongPollAssumption
  <2>3. \/ UNCHANGED <<pending, claimed>>
        \/ \E u \in Tasks : ClaimTaskForAgent(AgentOf[p], u)
    BY <1>4 DEF Start, PollStep, List, ClaimOne, Register, Wake, Return, RequestStep,
       ConfigReturns, Collect, GiveUp, Deadline, Disconnect, ClaimsNothing, ClaimFails, engineVars
  <2> QED BY <1>3, <2>1, <2>2, <2>3
<1>5. CASE (\E a \in Agents : Visit(a)) \/ WakeClaim \/ WakeSend
  <2>1. UNCHANGED <<events, notifyCh>>
    BY <1>5 DEF Visit, WakeClaim, WakeSend
  <2>2. UNCHANGED <<pending, claimed>> \/ \E u \in Tasks : ClaimTaskForAgent(dagent, u)
    BY <1>5 DEF Visit, WakeClaim, WakeSend, ClaimsNothing, ClaimFails, engineVars
  <2> QED BY <1>3, <2>1, <2>2
<1>6. CASE Stop \/ ShutdownStep \/ UNCHANGED vars
  <2>1. UNCHANGED <<events, notifyCh, pending, claimed>>
    BY <1>6 DEF Stop, ShutdownStep, Clear, DispatcherStops, Stopped, ServersStop, ShutdownReturns,
       engineVars, vars
  <2> QED BY <1>3, <2>1
<1> QED BY <1>1, <1>2, <1>3, <1>4, <1>5, <1>6 DEF Next, Dispatch

\* A task that the agent may have and that is pending can be claimed.
LEMMA SomethingToClaim ==
  ASSUME NEW a \in Agents, NEW t \in Range(pending), For(t, a)
  PROVE  Claimable(a) # {}
BY DEF Claimable, For

\* Every step keeps a pending task with somebody who will look for it.
LEMMA NothingIsMissedStep ==
  ASSUME NoticeSetting, IInv, Announced, Dispatching, NothingIsMissed, [Next]_vars
  PROVE  NothingIsMissed'
<1>0. /\ AgentOf \in [Polls -> Agents] /\ NULL \notin Agents \cup Tasks \cup Polls
      /\ waiters \in [Agents -> Owners] /\ ctxDone \in [Polls -> BOOLEAN]
      /\ pc \in [Polls -> PollPcs] /\ slot \in [Polls -> Tasks \cup {NULL}]
      /\ failures \in Nat /\ ~(failures < MaxFailures)
  BY LongPollAssumption DEF IInv, Types, Dispatching, NoticeSetting
<1>1. ASSUME NEW u \in Tasks, Submit(u) PROVE NothingIsMissed'
  <2>1. /\ Range(pending') = {u} \cup Range(pending) /\ events' = events \cup {u}
        /\ UNCHANGED <<notifyCh, waiters, pc, slot, ctxDone, phase, dispatchVars>>
    BY <1>1, SubmitAdds DEF Submit, NoticeSetting, pollVars
  <2>2. ASSUME NEW p \in Polls, NEW t \in Tasks, Waits(p, t)' PROVE Soon(p, t)'
    <3>1. CASE t = u
      BY <2>1, <3>1 DEF Soon
    <3>2. CASE t # u
      <4>1. Waits(p, t)
        BY <2>1, <2>2, <3>2 DEF Waits, running
      <4> QED BY <2>1, <4>1 DEF NothingIsMissed, Soon, dispatchVars
    <3> QED BY <3>1, <3>2
  <2> QED BY <2>2 DEF NothingIsMissed
<1>2. ASSUME NEW u \in Tasks, NotifyTaskSubmitted(u) PROVE NothingIsMissed'
  <2>1. /\ events' = events \ {u}
        /\ UNCHANGED <<pending, waiters, pc, slot, ctxDone, phase, dispatchVars>>
    BY <1>2 DEF NotifyTaskSubmitted, engineVars, pollVars
  <2>2. (running => u \in Range(notifyCh')) /\ Range(notifyCh) \subseteq Range(notifyCh')
    BY <1>2, NotifyAnnounced
  <2>3. ASSUME NEW p \in Polls, NEW t \in Tasks, Waits(p, t)'
        PROVE  Waits(p, t) /\ (Soon(p, t) => Soon(p, t)')
    BY <2>1, <2>2, <2>3 DEF Waits, Soon, running, dispatchVars
  <2> QED BY <2>3, MissedNotStays
<1>3. ASSUME NEW q \in Polls,
             Start(q) \/ Wake(q) \/ RequestStep(q) \/ Deadline(q) \/ Disconnect(q)
      PROVE  NothingIsMissed'
  <2>1. UNCHANGED <<pending, events, notifyCh, waiters, phase, dispatchVars>>
    BY <1>3 DEF Start, Wake, RequestStep, ConfigReturns, Collect, GiveUp, Deadline, Disconnect,
       engineVars
  <2>2. \A p \in Polls : pc'[p] = "wait" => pc[p] = "wait" /\ slot'[p] = slot[p]
    BY <1>0, <1>3 DEF Start, Wake, RequestStep, ConfigReturns, Collect, GiveUp, Deadline,
       Disconnect, Goto
  <2>3. \A p \in Polls : pc'[p] = "wait" /\ ~ctxDone'[p] => ~ctxDone[p]
    BY <1>0, <1>3 DEF Start, Wake, RequestStep, ConfigReturns, Collect, GiveUp, Deadline,
       Disconnect, Goto, Answer
  <2>4. ASSUME NEW p \in Polls, NEW t \in Tasks, Waits(p, t)'
        PROVE  Waits(p, t) /\ (Soon(p, t) => Soon(p, t)')
    BY <2>1, <2>2, <2>3, <2>4 DEF Waits, Soon, running, dispatchVars
  <2> QED BY <2>4, MissedNotStays
<1>4. ASSUME NEW q \in Polls, List(q) PROVE NothingIsMissed'
  <2>1. UNCHANGED <<pending, events, notifyCh, waiters, slot, ctxDone, phase, dispatchVars>>
    BY <1>4 DEF List, engineVars
  <2>2. \A p \in Polls \ {q} : pc'[p] = pc[p]
    BY <1>0, <1>4 DEF List, Goto
  <2>3. pc'[q] = "wait" => Cardinality(GetPendingTasks(AgentOf[q])) = 0
    BY <1>0, <1>4 DEF List, Goto, NoChanges
  <2>4. \A t \in Range(pending) : pc'[q] = "wait" => ~For(t, AgentOf[q])
    BY <1>0, <2>3, PageShows
  <2>5. ASSUME NEW p \in Polls, NEW t \in Tasks, Waits(p, t)'
        PROVE  Waits(p, t) /\ (Soon(p, t) => Soon(p, t)')
    BY <2>1, <2>2, <2>4, <2>5 DEF Waits, Soon, running, dispatchVars
  <2> QED BY <2>5, MissedNotStays
<1>5. ASSUME NEW q \in Polls, ClaimOne(q) PROVE NothingIsMissed'
  <2>1. UNCHANGED <<events, notifyCh, waiters, slot, ctxDone, phase, dispatchVars>>
    BY <1>5 DEF ClaimOne
  <2>2. \A p \in Polls \ {q} : pc'[p] = pc[p]
    BY <1>0, <1>5 DEF ClaimOne, Checked, Goto
  <2>3. Range(pending') \subseteq Range(pending)
    BY <1>5, ClaimTakesOne DEF ClaimOne, ClaimsNothing, ClaimFails, engineVars
  <2>4. ASSUME NEW t \in Tasks, Waits(q, t)' PROVE FALSE
    <3>1. pc[q] \in {"claim1", "claim2"} /\ ~ctxDone[q] /\ pc'[q] = "wait"
      BY <1>5, <2>1, <2>4 DEF Waits, ClaimOne
    <3>2. AgentOf[q] \in Agents /\ t \in Range(pending) /\ For(t, AgentOf[q])
      BY <1>0, <2>3, <2>4 DEF Waits, For
    <3>3. ~ClaimsNothing(AgentOf[q]) /\ ~ClaimFails
      BY <1>0, <3>2, SomethingToClaim DEF ClaimsNothing, ClaimFails
    <3>4. PICK u \in Tasks : IF left[q] = 1 THEN Checked(q, got[q] \cup {u}) ELSE UNCHANGED pc
      BY <1>5, <3>1, <3>3 DEF ClaimOne
    <3>5. pc'[q] # "wait"
      BY <1>0, <3>1, <3>4 DEF Checked, Goto
    <3> QED BY <3>1, <3>5
  <2>5. ASSUME NEW p \in Polls, NEW t \in Tasks, Waits(p, t)'
        PROVE  Waits(p, t) /\ (Soon(p, t) => Soon(p, t)')
    <3>1. p # q
      BY <2>4, <2>5
    <3> QED BY <2>1, <2>2, <2>3, <2>5, <3>1 DEF Waits, Soon, running, dispatchVars
  <2> QED BY <2>5, MissedNotStays
<1>6. ASSUME NEW q \in Polls, Register(q) PROVE NothingIsMissed'
  <2>1. /\ UNCHANGED <<pending, events, notifyCh, slot, ctxDone, phase, dispatchVars>>
        /\ waiters' = [waiters EXCEPT ![AgentOf[q]] = q]
        /\ pc' = [pc EXCEPT ![q] = "list2"]
    BY <1>6 DEF Register, engineVars, Goto, AfterRegister
  <2>2. ASSUME NEW p \in Polls, NEW t \in Tasks, Waits(p, t)'
        PROVE  Waits(p, t) /\ (Soon(p, t) => Soon(p, t)')
    <3>1. p # q /\ pc[p] = "wait"
      BY <1>0, <2>1, <2>2 DEF Waits
    <3>2. waiters[AgentOf[p]] = p
      BY <1>0, <2>1, <2>2, <3>1 DEF Waits
    <3> QED BY <2>1, <2>2, <3>1, <3>2 DEF Waits, Soon, running, dispatchVars
  <2> QED BY <2>2, MissedNotStays
<1>7. ASSUME NEW q \in Polls, Return(q) PROVE NothingIsMissed'
  <2>1. /\ UNCHANGED <<pending, events, notifyCh, slot, ctxDone, phase, dpc, dtodo>>
        /\ waiters' = [waiters EXCEPT ![AgentOf[q]] = IF @ = q THEN NULL ELSE @]
        /\ pc' = [pc EXCEPT ![q] = "idle"]
        /\ dwaiter' = IF dwaiter = q THEN NULL ELSE dwaiter
    BY <1>7 DEF Return, Deregister, engineVars, Goto
  <2>2. ASSUME NEW p \in Polls, NEW t \in Tasks, Waits(p, t)'
        PROVE  Waits(p, t) /\ (Soon(p, t) => Soon(p, t)')
    <3>1. p # q /\ pc[p] = "wait"
      BY <1>0, <2>1, <2>2 DEF Waits
    <3>2. waiters[AgentOf[p]] = p
      BY <1>0, <2>1, <2>2 DEF Waits
    <3> QED BY <2>1, <2>2, <3>1, <3>2 DEF Waits, Soon, running
  <2> QED BY <2>2, MissedNotStays
<1>8. CASE HandleNotification
  <2>1. /\ UNCHANGED <<pending, events, waiters, pc, slot, ctxDone, phase, dwaiter>>
        /\ dpc = "idle" /\ dtodo = {}
        /\ dtodo' = Notified(Head(notifyCh)) \cap {a \in Agents : waiters[a] # NULL}
    BY <1>8 DEF HandleNotification, engineVars, pollVars, Dispatching
  <2>2. Range(notifyCh) = Range(notifyCh') \cup {Head(notifyCh)}
    BY <1>8, HandleAnnounced
  <2>3. ASSUME NEW p \in Polls, NEW t \in Tasks, Waits(p, t)'
        PROVE  Waits(p, t) /\ (Soon(p, t) => Soon(p, t)')
    <3>1. Waits(p, t)
      BY <2>1, <2>3 DEF Waits, running
    <3>2. ASSUME t = Head(notifyCh) PROVE AgentOf[p] \in dtodo'
      BY <1>0, <2>1, <3>1, <3>2 DEF Waits, Notified
    <3> QED BY <2>1, <2>2, <3>1, <3>2 DEF Soon
  <2> QED BY <2>3, MissedNotStays
<1>9. ASSUME NEW a \in Agents, Visit(a) PROVE NothingIsMissed'
  <2>1. /\ UNCHANGED <<pending, events, notifyCh, waiters, pc, slot, ctxDone, phase>>
        /\ dpc = "range" /\ dtodo' = dtodo \ {a}
        /\ waiters[a] # NULL => dpc' = "claim" /\ dwaiter' = waiters[a]
    BY <1>9 DEF Visit, engineVars, pollVars
  <2>2. ASSUME NEW p \in Polls, NEW t \in Tasks, Waits(p, t)'
        PROVE  Waits(p, t) /\ (Soon(p, t) => Soon(p, t)')
    <3>1. Waits(p, t)
      BY <2>1, <2>2 DEF Waits, running
    <3>2. ASSUME a = AgentOf[p] PROVE dwaiter' = p /\ dpc' = "claim"
      BY <1>0, <2>1, <3>1, <3>2 DEF Waits
    <3> QED BY <2>1, <3>1, <3>2 DEF Soon
  <2> QED BY <2>2, MissedNotStays
<1>10. CASE WakeClaim
  <2>1. /\ UNCHANGED <<events, notifyCh, waiters, pc, slot, ctxDone, phase, dtodo>> /\ dpc = "claim"
    BY <1>10 DEF WakeClaim, pollVars
  <2>2. \/ dpc' = "send" /\ dwaiter' = dwaiter
        \/ ClaimsNothing(dagent)
    BY <1>0, <1>10 DEF WakeClaim, ClaimFails
  <2>3. Range(pending') \subseteq Range(pending)
    BY <1>10, ClaimTakesOne DEF WakeClaim, ClaimsNothing, ClaimFails, engineVars
  <2>4. ASSUME NEW p \in Polls, NEW t \in Tasks, Waits(p, t)'
        PROVE  Waits(p, t) /\ (Soon(p, t) => Soon(p, t)')
    <3>1. Waits(p, t)
      BY <2>1, <2>3, <2>4 DEF Waits, running
    <3>2. ASSUME dwaiter = p PROVE dpc' = "send" /\ dwaiter' = p
      <4>1. dagent = AgentOf[p] /\ dagent \in Agents
        BY <1>0, <3>2 DEF Dispatching
      <4>2. Claimable(dagent) # {}
        BY <3>1, <4>1, SomethingToClaim DEF Waits
      <4> QED BY <2>2, <3>2, <4>2 DEF ClaimsNothing
    <3> QED BY <2>1, <3>1, <3>2 DEF Soon
  <2> QED BY <2>4, MissedNotStays
<1>11. CASE WakeSend
  <2>1. /\ UNCHANGED <<pending, events, notifyCh, waiters, pc, ctxDone, phase, dtodo>>
        /\ dpc = "send"
        /\ IF Full THEN UNCHANGED slot ELSE slot' = [slot EXCEPT ![dwaiter] = dgot]
    BY <1>11 DEF WakeSend, engineVars
  <2>2. dgot # NULL
    BY <1>0, <2>1 DEF Dispatching
  <2>3. ASSUME NEW p \in Polls, NEW t \in Tasks, Waits(p, t)'
        PROVE  Waits(p, t) /\ (Soon(p, t) => Soon(p, t)')
    <3>1. slot'[p] = NULL
      BY <2>3 DEF Waits
    <3>2. slot[p] = NULL /\ dwaiter # p
      BY <1>0, <2>1, <2>2, <3>1 DEF Full
    <3> QED BY <2>1, <2>3, <3>2 DEF Waits, Soon, running
  <2> QED BY <2>3, MissedNotStays
<1>12. CASE Stop \/ ShutdownStep
  <2>1. ~running'
    BY <1>12 DEF Stop, ShutdownStep, Clear, DispatcherStops, Stopped, ServersStop,
       ShutdownReturns, running
  <2> QED BY <2>1 DEF NothingIsMissed, Waits
<1>13. CASE UNCHANGED vars
  BY <1>13 DEF vars, pollVars, dispatchVars, NothingIsMissed, Waits, Soon, running
<1> QED BY <1>1, <1>2, <1>3, <1>4, <1>5, <1>6, <1>7, <1>8, <1>9, <1>10, <1>11, <1>12, <1>13
        DEF Next, PollStep, Dispatch

\* Nothing is pending at first.
LEMMA InitW ==
  ASSUME NoticeSetting, Init
  PROVE  Announced /\ Dispatching /\ NothingIsMissed
<1>1. notifyCh = <<>> /\ events = {} /\ Len(notifyCh) = 0 /\ Range(notifyCh) = {}
  BY EmptySeq, LenProperties DEF Init, Range
<1>2. Announced
  BY <1>1 DEF Announced
<1>3. Dispatching
  BY DEF Init, Dispatching
<1>4. NothingIsMissed
  BY DEF Init, NothingIsMissed, Waits
<1> QED BY <1>2, <1>3, <1>4

(* WaiterIsWoken: a poll that waits hears of every pending task it could     *)
(* have, if no claim fails and notifyCh holds an entry for each task: the    *)
(* check of Poll after Register (task_handler_engine.go) leaves no gap.      *)
THEOREM WaiterIsWokenHolds ==
  ASSUME NoticeSetting
  PROVE  Spec => []WaiterIsWoken
<1>1. Init => Announced /\ Dispatching /\ NothingIsMissed
  BY InitW
<1>2. IInv /\ Announced /\ Dispatching /\ NothingIsMissed /\ [Next]_vars
      => Announced' /\ Dispatching' /\ NothingIsMissed'
  BY AnnouncedStep, DispatchingStep, NothingIsMissedStep
<1>3. IInv /\ NothingIsMissed => WaiterIsWoken
  <2> SUFFICES ASSUME IInv, NothingIsMissed, running, NEW p \in Polls, NEW t \in Range(pending)
               PROVE  Waits(p, t) => Soon(p, t)
    BY DEF WaiterIsWoken, Waits, Soon
  <2>1. t \in Tasks
    BY ElementOfSeq, LenProperties DEF IInv, Types, Range
  <2> QED BY <2>1 DEF NothingIsMissed
<1> QED BY <1>1, <1>2, <1>3, Invariance, PTL DEF Spec

=============================================================================
