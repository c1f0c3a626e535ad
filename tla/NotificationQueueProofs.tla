------------------------ MODULE NotificationQueueProofs ------------------------
(***************************************************************************)
(* What the queue promises, for any number of handlers, notifications,     *)
(* failures and restarts: no announcement is lost, what is marked as sent  *)
(* was shown, and nothing is shown again without a failure.                *)
(*                                                                         *)
(* The invariant says what the consumer holds between two of its steps: a  *)
(* row that it has found is unsent and still announced, and one that it    *)
(* has sent was shown.                                                     *)
(***************************************************************************)
EXTENDS NotificationQueue, WellFoundedInduction, TLAPS

\* A row is open in the transaction of the one handler that stored it.
OpenInOne ==
    /\ \A s \in Senders : \A n \in sender[s].notes : row[n] = "open"
    /\ \A s, z \in Senders : s # z => sender[s].notes \cap sender[z].notes = {}

\* What the consumer holds.
Holds ==
    consumer.at \in {"found", "sent"} =>
        /\ row[consumer.note] = "unsent"
        /\ token
        /\ consumer.at = "sent" => delivered[consumer.note] > 0

\* Only rows that were unsent have been announced.
Announced == \A n \in due : row[n] \in {"unsent", "sent"}

\* Every failure and restart pays for one repetition, and a row that waits to
\* be sent has not been shown for the first time yet, or was paid for.
Paid ==
    \A n \in Notes :
        /\ delivered[n] <= 1 + faults + restarts
        /\ row[n] = "unsent" /\ delivered[n] > faults + restarts
              => consumer = [at |-> "sent", note |-> n]

NInv ==
    /\ TypeOK /\ OpenInOne /\ Holds /\ Announced /\ Paid
    /\ NoLostAnnouncement /\ SentWasDelivered

-----------------------------------------------------------------------------
LEMMA OldestOfSome ==
    ASSUME NEW S \in SUBSET Nat, S # {}
    PROVE  Min(S) \in S
<1> DEFINE Less == OpToRel(<, Nat)
<1>1. \A x, y \in Nat : <<y, x>> \in Less <=> y < x
  BY Zenon DEF OpToRel
<1>2. IsWellFoundedOn(Less, Nat)
  BY NatLessThanWellFounded, Zenon
<1> HIDE DEF Less
<1>3. \E x \in S : \A y \in S : ~ <<y, x>> \in Less
  BY <1>2, WFMin, Zenon
<1>4. PICK x \in S : \A y \in S : ~ <<y, x>> \in Less
  BY <1>3
<1>5. \A y \in S : ~ (y < x)
  BY <1>1, <1>4, Zenon
<1>6. \E z \in S : \A y \in S : z =< y
  BY <1>5
<1> QED
  BY <1>6 DEF Min

USE DEF Notes, Idle, Waiting

LEMMA InitNInv == Init => NInv
<1> SUFFICES ASSUME Init PROVE NInv
  OBVIOUS
<1>1. TypeOK
  BY DEF Init, TypeOK
<1>2. OpenInOne /\ Holds /\ Announced /\ Paid
  BY DEF Init, OpenInOne, Holds, Announced, Paid
<1>3. NoLostAnnouncement /\ SentWasDelivered
  BY DEF Init, NoLostAnnouncement, SentWasDelivered
<1> QED
  BY <1>1, <1>2, <1>3 DEF NInv

-----------------------------------------------------------------------------
(* The handlers touch rows that are open in their own transactions. *)

\* What a commit, a rollback and a restart do to the rows: those that are open
\* end, the others stay as they are.
OpenRowsEnd ==
    \A n \in Notes : row'[n] # row[n] =>
        row[n] = "open" /\ row'[n] \in {"unsent", "dropped"}

LEMMA OpenRowsEndKeeps ==
    ASSUME NInv, OpenRowsEnd,
           UNCHANGED <<token, consumer, delivered, due, faults, restarts>>
    PROVE  (Holds /\ Announced /\ Paid /\ NoLostAnnouncement /\ SentWasDelivered)'
<1> USE DEF NInv
<1>1. Holds' /\ Announced'
  BY DEF Holds, Announced, OpenRowsEnd, TypeOK
<1>2. SentWasDelivered'
  BY DEF SentWasDelivered, OpenRowsEnd
<1>3. Paid'
  BY DEF Paid, SentWasDelivered, OpenRowsEnd, TypeOK
<1>4. NoLostAnnouncement'
  BY DEF NoLostAnnouncement, Announced, Unsent, OpenRowsEnd, TypeOK
<1> QED
  BY <1>1, <1>2, <1>3, <1>4

LEMMA StoreNotificationStep ==
    ASSUME NInv, NEW s \in Senders, NEW n \in Notes, StoreNotification(s, n)
    PROVE  NInv'
<1> USE DEF NInv
<1>1. /\ row' = [row EXCEPT ![n] = "open"] /\ row[n] = "none"
      /\ sender' = [sender EXCEPT ![s] = [at |-> "open", notes |-> @.notes \cup {n}]]
      /\ UNCHANGED <<token, consumer, delivered, due, faults, restarts>>
  BY DEF StoreNotification
<1>2. TypeOK'
  BY <1>1 DEF TypeOK
<1>3. OpenInOne'
  BY <1>1 DEF TypeOK, OpenInOne
<1>4. Holds' /\ Announced' /\ Paid'
  BY <1>1 DEF TypeOK, Holds, Announced, Paid
<1>5. NoLostAnnouncement' /\ SentWasDelivered'
  BY <1>1 DEF TypeOK, NoLostAnnouncement, SentWasDelivered, Unsent
<1> QED
  BY <1>2, <1>3, <1>4, <1>5

LEMMA EndOfTransaction ==
    ASSUME NInv, NEW s \in Senders, CommitMutation(s) \/ RollBack(s)
    PROVE  NInv'
<1> USE DEF NInv
<1>1. PICK outcome \in {"unsent", "dropped"} : row' = Resolved(s, outcome)
  BY DEF CommitMutation, RollBack
<1>2. PICK next \in {"idle", "committed"} :
        sender' = [sender EXCEPT ![s] = [at |-> next, notes |-> {}]]
  BY DEF CommitMutation, RollBack
<1>3. UNCHANGED <<token, consumer, delivered, due, faults, restarts>>
  BY DEF CommitMutation, RollBack
<1>4. OpenRowsEnd
  BY <1>1 DEF OpenRowsEnd, Resolved, OpenInOne
<1>5. TypeOK'
  BY <1>1, <1>2, <1>3 DEF TypeOK, Resolved
<1>6. OpenInOne'
  BY <1>1, <1>2 DEF TypeOK, OpenInOne, Resolved
<1> QED
  BY <1>3, <1>4, <1>5, <1>6, OpenRowsEndKeeps

LEMMA AnnounceStep ==
    ASSUME NInv, NEW s \in Senders, Announce(s)
    PROVE  NInv'
<1> USE DEF NInv
<1>1. /\ sender' = [sender EXCEPT ![s] = Idle]
      /\ token' = TRUE /\ due' = due \cup Unsent
      /\ UNCHANGED <<row, consumer, delivered, faults, restarts>>
  BY DEF Announce, announceNotification
<1>2. TypeOK' /\ OpenInOne'
  BY <1>1 DEF TypeOK, OpenInOne, Unsent
<1>3. Holds' /\ Announced' /\ Paid'
  BY <1>1 DEF TypeOK, Holds, Announced, Paid, Unsent
<1>4. NoLostAnnouncement' /\ SentWasDelivered'
  BY <1>1 DEF NoLostAnnouncement, SentWasDelivered
<1> QED
  BY <1>2, <1>3, <1>4

-----------------------------------------------------------------------------
(* The consumer *)

LEMMA ReadStep ==
    ASSUME NInv, Take \/ FindNothing \/ Find \/ FindFails
    PROVE  NInv'
<1> USE DEF NInv
<1>1. UNCHANGED <<row, sender, delivered, restarts>> /\ OpenInOne' /\ SentWasDelivered'
  BY DEF Take, FindNothing, Find, FindFails, OpenInOne, SentWasDelivered
<1>2. CASE Take
  <2>1. TypeOK' /\ Holds' /\ Announced'
    BY <1>1, <1>2 DEF Take, TypeOK, Holds, Announced
  <2>2. Paid' /\ NoLostAnnouncement'
    BY <1>1, <1>2 DEF Take, TypeOK, Paid, NoLostAnnouncement
  <2> QED
    BY <1>1, <2>1, <2>2
<1>3. CASE FindNothing
  <2>1. TypeOK' /\ Holds' /\ Announced'
    BY <1>1, <1>3 DEF FindNothing, TypeOK, Holds, Announced
  <2>2. Paid' /\ NoLostAnnouncement'
    BY <1>1, <1>3 DEF FindNothing, TypeOK, Paid, NoLostAnnouncement, Unsent
  <2> QED
    BY <1>1, <2>1, <2>2
<1>4. CASE Find
  <2>1. Unsent \in SUBSET Nat /\ Unsent # {}
    BY <1>4 DEF Find, Unsent
  <2>2. Min(Unsent) \in Unsent
    BY <2>1, OldestOfSome
  <2>3. /\ consumer' = [at |-> "found", note |-> Min(Unsent)]
        /\ token' = TRUE /\ due' = due \cup Unsent /\ faults' = faults
        /\ consumer.at = "taken"
    BY <1>4 DEF Find, announceNotification
  <2>4. TypeOK' /\ Holds' /\ Announced'
    BY <1>1, <2>2, <2>3 DEF TypeOK, Holds, Announced, Unsent
  <2>5. Paid' /\ NoLostAnnouncement'
    BY <1>1, <2>3 DEF Paid, NoLostAnnouncement
  <2> QED
    BY <1>1, <2>4, <2>5
<1>5. CASE FindFails
  <2>1. /\ consumer' = Waiting /\ due' = IF token THEN due ELSE {}
        /\ token' = token /\ faults' = faults + 1
    BY <1>5 DEF FindFails, Fault
  <2>2. TypeOK' /\ Holds' /\ Announced'
    BY <1>1, <2>1 DEF TypeOK, Holds, Announced
  <2>3. NoLostAnnouncement'
    BY <1>1, <2>1 DEF NoLostAnnouncement
  <2>4. Paid'
    <3> SUFFICES ASSUME NEW n \in Notes
                 PROVE  /\ delivered[n] <= 1 + faults' + restarts
                        /\ ~ (row[n] = "unsent" /\ delivered[n] > faults' + restarts)
      BY <1>1 DEF Paid
    <3> QED
      BY <2>1 DEF Paid, TypeOK
  <2> QED
    BY <1>1, <2>2, <2>3, <2>4
<1> QED
  BY <1>2, <1>3, <1>4, <1>5

\* A notification is shown, or an error leaves it open whether it was; one that
\* was shown has been paid for before.
LEMMA SendStep ==
    ASSUME NInv, Send \/ SendFails
    PROVE  NInv'
<1> USE DEF NInv
<1> DEFINE n == consumer.note
<1>1. /\ n \in Notes /\ row[n] = "unsent" /\ token
      /\ delivered[n] <= faults + restarts
      /\ UNCHANGED <<row, sender, token, due, restarts>>
  BY DEF Send, SendFails, TypeOK, Holds, Paid
<1>2. OpenInOne' /\ Announced' /\ NoLostAnnouncement'
  BY <1>1 DEF OpenInOne, Announced, NoLostAnnouncement
<1>3. CASE Send
  <2>1. /\ delivered' = [delivered EXCEPT ![n] = @ + 1]
        /\ consumer' = [at |-> "sent", note |-> n]
        /\ faults' = faults
    BY <1>3 DEF Send, TypeOK
  <2>2. TypeOK' /\ Holds'
    BY <1>1, <2>1 DEF TypeOK, Holds
  <2>3. Paid' /\ SentWasDelivered'
    BY <1>1, <2>1 DEF TypeOK, Paid, SentWasDelivered
  <2> QED
    BY <1>2, <2>2, <2>3
<1>4. CASE SendFails
  <2>1. PICK shown \in {0, 1} : delivered' = [delivered EXCEPT ![n] = @ + shown]
    BY <1>4 DEF SendFails
  <2>2. consumer' = Waiting /\ faults' = faults + 1
    BY <1>4 DEF SendFails, Fault
  <2>3. TypeOK' /\ Holds'
    BY <1>1, <2>1, <2>2 DEF TypeOK, Holds
  <2>4. SentWasDelivered'
    BY <1>1, <2>1 DEF TypeOK, SentWasDelivered
  <2>5. Paid'
    <3> SUFFICES ASSUME NEW m \in Notes
                 PROVE  delivered'[m] <= faults' + restarts
      <4>1. delivered' \in [Notes -> Nat] /\ restarts \in Nat /\ faults' \in Nat
        BY <1>1, <2>1, <2>2 DEF TypeOK
      <4> QED
        BY <1>1, <4>1 DEF Paid
    <3>1. delivered[m] <= 1 + faults + restarts /\ delivered[m] \in Nat
      BY DEF Paid, TypeOK
    <3>2. faults \in Nat /\ restarts \in Nat
      BY DEF TypeOK
    <3>3. CASE m = n
      BY <1>1, <2>1, <2>2, <3>1, <3>2, <3>3 DEF TypeOK
    <3>4. CASE m # n
      <4>1. delivered'[m] = delivered[m]
        BY <2>1, <3>4 DEF TypeOK
      <4> QED
        BY <2>2, <3>1, <3>2, <4>1
    <3> QED
      BY <3>3, <3>4
  <2> QED
    BY <1>2, <2>3, <2>4, <2>5
<1> QED
  BY <1>3, <1>4

LEMMA MarkStep ==
    ASSUME NInv, MarkAsSent \/ MarkFails
    PROVE  NInv'
<1> USE DEF NInv
<1> DEFINE n == consumer.note
<1>1. /\ n \in Notes /\ row[n] = "unsent" /\ token /\ delivered[n] > 0
      /\ consumer.at = "sent" /\ consumer' = Waiting
      /\ UNCHANGED <<sender, token, delivered, due, restarts>>
  BY DEF MarkAsSent, MarkFails, TypeOK, Holds
<1>2. row' = row \/ row' = [row EXCEPT ![n] = "sent"]
  BY DEF MarkAsSent, MarkFails
<1>3. /\ faults' \in {faults, faults + 1}
      /\ row' = row => faults' = faults + 1
  BY <1>1 DEF MarkAsSent, MarkFails, Fault, TypeOK
<1>4. TypeOK' /\ Holds'
  BY <1>1, <1>2, <1>3 DEF TypeOK, Holds
<1>5. OpenInOne' /\ Announced' /\ NoLostAnnouncement'
  BY <1>1, <1>2 DEF TypeOK, OpenInOne, Announced, NoLostAnnouncement
<1>6. SentWasDelivered'
  BY <1>1, <1>2 DEF TypeOK, SentWasDelivered
<1>7. Paid'
  <2> SUFFICES ASSUME NEW m \in Notes
               PROVE  /\ delivered[m] <= 1 + faults' + restarts
                      /\ ~ (row'[m] = "unsent" /\ delivered[m] > faults' + restarts)
    BY <1>1 DEF Paid
  <2>1. /\ delivered[m] \in Nat /\ faults \in Nat /\ restarts \in Nat
        /\ delivered[m] <= 1 + faults + restarts
    BY DEF Paid, TypeOK
  <2>2. CASE m = n
    <3>1. row'[m] = "unsent" => faults' = faults + 1
      BY <1>1, <1>2, <1>3, <2>2 DEF TypeOK
    <3> QED
      BY <1>3, <2>1, <3>1
  <2>3. CASE m # n
    <3>1. row'[m] = row[m]
      BY <1>2, <2>3 DEF TypeOK
    <3>2. row[m] = "unsent" => ~ (delivered[m] > faults + restarts)
      BY <2>3 DEF Paid
    <3> QED
      BY <1>3, <2>1, <3>1, <3>2
  <2> QED
    BY <2>2, <2>3
<1> QED
  BY <1>4, <1>5, <1>6, <1>7

LEMMA RestartStep ==
    ASSUME NInv, Restart
    PROVE  NInv'
<1> USE DEF NInv
<1>1. /\ row' = AfterRestart /\ sender' = [s \in Senders |-> Idle]
      /\ consumer' = Waiting /\ token' = TRUE /\ due' = due \cup Unsent
      /\ restarts' = restarts + 1 /\ UNCHANGED <<delivered, faults>>
  BY DEF Restart, announceNotification
<1>2. TypeOK' /\ OpenInOne' /\ Holds'
  BY <1>1 DEF TypeOK, OpenInOne, Holds, AfterRestart, Unsent
<1>3. Announced' /\ NoLostAnnouncement' /\ SentWasDelivered'
  BY <1>1 DEF TypeOK, Announced, NoLostAnnouncement, SentWasDelivered,
              AfterRestart, Unsent
<1>4. Paid'
  BY <1>1 DEF TypeOK, Paid, AfterRestart
<1> QED
  BY <1>2, <1>3, <1>4

-----------------------------------------------------------------------------
LEMMA NInvInductive == NInv /\ [Next]_vars => NInv'
<1> SUFFICES ASSUME NInv, [Next]_vars PROVE NInv'
  OBVIOUS
<1>1. CASE \E s \in Senders : Handle(s)
  BY <1>1, StoreNotificationStep, EndOfTransaction, AnnounceStep DEF Handle
<1>2. CASE Consume \/ Trouble
  BY <1>2, ReadStep, SendStep, MarkStep DEF Consume, Trouble
<1>3. CASE Restart
  BY <1>3, RestartStep
<1>4. CASE UNCHANGED vars
  BY <1>4 DEF vars, NInv, TypeOK, OpenInOne, Holds, Announced, Paid,
              NoLostAnnouncement, SentWasDelivered, Unsent
<1> QED
  BY <1>1, <1>2, <1>3, <1>4 DEF Next

LEMMA NInvHolds == Spec => []NInv
<1> QED
  BY InitNInv, NInvInductive, PTL DEF Spec

\* Every reachable state of the queue is typed.
THEOREM QueueTypeCorrect == Spec => []TypeOK
<1>1. NInv => TypeOK
  BY DEF NInv
<1> QED
  BY <1>1, NInvHolds, PTL

\* No announcement is lost: an announced row that is unsent keeps the consumer
\* awake (the channel of capacity one, announceNotification and loopWrap).
THEOREM AnnouncementsSurvive == Spec => []NoLostAnnouncement
<1>1. NInv => NoLostAnnouncement
  BY DEF NInv
<1> QED
  BY <1>1, NInvHolds, PTL

\* Every repetition of a notification is paid for by a failure or a restart.
THEOREM RepetitionsArePaid == Spec => []DuplicateCostsFailure
<1>1. NInv => DuplicateCostsFailure
  BY DEF NInv, Paid, DuplicateCostsFailure
<1> QED
  BY <1>1, NInvHolds, PTL

\* A row is marked as sent after it was shown, and a row that was rolled back
\* is never shown.
THEOREM MarkedAfterShown == Spec => []SentWasDelivered
<1>1. NInv => SentWasDelivered
  BY DEF NInv
<1> QED
  BY <1>1, NInvHolds, PTL

=============================================================================
