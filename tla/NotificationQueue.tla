--------------------------- MODULE NotificationQueue ---------------------------
(***************************************************************************)
(* Notifications (service/notifications.go, notificationconsumer.go): the  *)
(* table submission_notification is a queue that every mutation of a       *)
(* submission appends to in its own transaction; one goroutine of the      *)
(* server delivers its rows to Discord.  A channel of capacity one tells   *)
(* that goroutine that there is something to read: whoever has committed   *)
(* announces, the consumer announces to itself while it finds rows, and an *)
(* announcement that finds the channel full is dropped.                    *)
(***************************************************************************)
EXTENDS Naturals, FiniteSets, FiniteSetsExt

CONSTANTS
    Senders,        \* handler goroutines
    Silent,         \* those that never announce: metadata edits, reminders
    MaxNotes,       \* bound: notifications ever stored
    MaxFaults,      \* bound: failures of Discord or of the database
    MaxRestarts     \* bound: restarts of the server

ASSUME NotificationAssumption ==
    /\ Silent \subseteq Senders
    /\ {MaxNotes, MaxFaults, MaxRestarts} \subseteq Nat

VARIABLES
    row,        \* submission_notification, in the order of created_at
    sender,     \* the transaction of each handler and the rows it stored
    token,      \* notificationQueueNotEmpty holds an announcement
    consumer,   \* where loopWrap stands, and the notification it has read
    delivered,  \* how often Discord has shown each notification
    due,        \* history: rows that were unsent when something was announced
    faults,     \* failures so far
    restarts    \* restarts so far

vars == <<row, sender, token, consumer, delivered, due, faults, restarts>>

Notes == 1 .. MaxNotes

Idle == [at |-> "idle", notes |-> {}]
Waiting == [at |-> "waiting", note |-> 0]

Unsent == {n \in Notes : row[n] = "unsent"}

Init ==
    /\ row = [n \in Notes |-> "none"]
    /\ sender = [s \in Senders |-> Idle]
    /\ token = TRUE
    /\ consumer = Waiting
    /\ delivered = [n \in Notes |-> 0]
    /\ due = {}
    /\ faults = 0 /\ restarts = 0

Fault ==
    /\ faults < MaxFaults
    /\ faults' = faults + 1

\* The non-blocking send on the channel.
announceNotification ==
    /\ token' = TRUE
    /\ due' = due \cup Unsent

-----------------------------------------------------------------------------
(* The handlers *)

\* A mutation stores its next notification: one in most handlers, two in an
\* upload, one for each author in the reminders.  created_at is the time of the
\* statement, not of the commit.
StoreNotification(s, n) ==
    /\ sender[s].at \in {"idle", "open"}
    /\ row[n] = "none"
    /\ \A m \in 1 .. n - 1 : row[m] # "none"
    /\ row' = [row EXCEPT ![n] = "open"]
    /\ sender' = [sender EXCEPT ![s] = [at |-> "open", notes |-> @.notes \cup {n}]]
    /\ UNCHANGED <<token, consumer, delivered, due, faults, restarts>>

\* The rows of sender s become what its transaction comes to.
Resolved(s, outcome) ==
    [n \in Notes |-> IF n \in sender[s].notes THEN outcome ELSE row[n]]

\* Where nobody is to be notified the mutation commits without a notification.
CommitMutation(s) ==
    /\ sender[s].at \in {"idle", "open"}
    /\ row' = Resolved(s, "unsent")
    /\ sender' = [sender EXCEPT ![s] = IF s \in Silent THEN Idle
                                       ELSE [at |-> "committed", notes |-> {}]]
    /\ UNCHANGED <<token, consumer, delivered, due, faults, restarts>>

RollBack(s) ==
    /\ sender[s].at = "open"
    /\ row' = Resolved(s, "dropped")
    /\ sender' = [sender EXCEPT ![s] = Idle]
    /\ UNCHANGED <<token, consumer, delivered, due, faults, restarts>>

Announce(s) ==
    /\ sender[s].at = "committed"
    /\ announceNotification
    /\ sender' = [sender EXCEPT ![s] = Idle]
    /\ UNCHANGED <<row, consumer, delivered, faults, restarts>>

-----------------------------------------------------------------------------
(* RunNotificationConsumer *)

Take ==
    /\ consumer.at = "waiting"
    /\ token
    /\ token' = FALSE
    /\ consumer' = [consumer EXCEPT !.at = "taken"]
    /\ UNCHANGED <<row, sender, delivered, due, faults, restarts>>

\* ErrNoRows: wait for an announcement.
FindNothing ==
    /\ consumer.at = "taken"
    /\ Unsent = {}
    /\ consumer' = Waiting
    /\ UNCHANGED <<row, sender, token, delivered, due, faults, restarts>>

\* Slip: the consumer reads one notification for each announcement.
Find_OnePerToken ==
    /\ consumer.at = "taken"
    /\ Unsent # {}
    /\ consumer' = [at |-> "found", note |-> Min(Unsent)]
    /\ UNCHANGED <<row, sender, token, delivered, due, faults, restarts>>

\* GetOldestUnsentNotification; there may be more, so the consumer announces.
Find ==
    /\ consumer.at = "taken"
    /\ Unsent # {}
    /\ consumer' = [at |-> "found", note |-> Min(Unsent)]
    /\ announceNotification
    /\ UNCHANGED <<row, sender, delivered, faults, restarts>>

\* No session or no answer: the consumer sleeps for a minute and then waits for
\* an announcement; the one it has taken is lost, unless another came meanwhile.
FindFails ==
    /\ consumer.at = "taken"
    /\ Fault
    /\ consumer' = Waiting
    /\ due' = IF token THEN due ELSE {}
    /\ UNCHANGED <<row, sender, token, delivered, restarts>>

Send ==
    /\ consumer.at = "found"
    /\ delivered' = [delivered EXCEPT ![consumer.note] = @ + 1]
    /\ consumer' = [consumer EXCEPT !.at = "sent"]
    /\ UNCHANGED <<row, sender, token, due, faults, restarts>>

\* Slip: the error of Discord is logged and nothing more.
SendFails_Marked ==
    /\ consumer.at = "found"
    /\ Fault
    /\ consumer' = [consumer EXCEPT !.at = "sent"]
    /\ UNCHANGED <<row, sender, token, delivered, due, restarts>>

\* Discord may have shown the message all the same.
SendFails ==
    /\ consumer.at = "found"
    /\ Fault
    /\ \E shown \in {0, 1} :
        delivered' = [delivered EXCEPT ![consumer.note] = @ + shown]
    /\ consumer' = Waiting
    /\ UNCHANGED <<row, sender, token, due, restarts>>

\* Slip: the transaction of the consumer is rolled back with its session.
MarkAsSent_NotCommitted ==
    /\ consumer.at = "sent"
    /\ consumer' = Waiting
    /\ UNCHANGED <<row, sender, token, delivered, due, faults, restarts>>

\* MarkNotificationAsSent and its commit, which nobody else writes to.
MarkAsSent ==
    /\ consumer.at = "sent"
    /\ row' = [row EXCEPT ![consumer.note] = "sent"]
    /\ consumer' = Waiting
    /\ UNCHANGED <<sender, token, delivered, due, faults, restarts>>

\* The update fails, or the commit, which may have taken effect all the same.
MarkFails ==
    /\ consumer.at = "sent"
    /\ Fault
    /\ row' \in {row, [row EXCEPT ![consumer.note] = "sent"]}
    /\ consumer' = Waiting
    /\ UNCHANGED <<sender, token, delivered, due, restarts>>

-----------------------------------------------------------------------------
\* The server stops between any two steps, at the latest when its context is
\* cancelled; open transactions are rolled back and channels are gone.  The
\* consumer of the next server begins with an announcement.
AfterRestart == [n \in Notes |-> IF row[n] = "open" THEN "dropped" ELSE row[n]]

\* Slip: the new consumer waits for somebody to announce.
Restart_Unannounced ==
    /\ restarts < MaxRestarts
    /\ restarts' = restarts + 1
    /\ row' = AfterRestart
    /\ sender' = [s \in Senders |-> Idle]
    /\ token' = FALSE
    /\ consumer' = Waiting
    /\ due' = due \cup Unsent
    /\ UNCHANGED <<delivered, faults>>

Restart ==
    /\ restarts < MaxRestarts
    /\ restarts' = restarts + 1
    /\ row' = AfterRestart
    /\ sender' = [s \in Senders |-> Idle]
    /\ consumer' = Waiting
    /\ announceNotification
    /\ UNCHANGED <<delivered, faults>>

Handle(s) ==
    \/ \E n \in Notes : StoreNotification(s, n)
    \/ CommitMutation(s) \/ RollBack(s) \/ Announce(s)

\* The consumer always goes on: every call it makes returns and a sleep ends.
Consume == Take \/ FindNothing \/ Find \/ Send \/ MarkAsSent

Trouble == FindFails \/ SendFails \/ MarkFails

Next == (\E s \in Senders : Handle(s)) \/ Consume \/ Trouble \/ Restart

Spec == Init /\ [][Next]_vars

FairSpec == Spec /\ WF_vars(Consume)

-----------------------------------------------------------------------------
(* Properties *)

TypeOK ==
    /\ row \in [Notes -> {"none", "open", "unsent", "sent", "dropped"}]
    /\ sender \in [Senders -> [at : {"idle", "open", "committed"},
                               notes : SUBSET Notes]]
    /\ token \in BOOLEAN
    /\ \/ consumer.at \in {"waiting", "taken"} /\ consumer = [Waiting EXCEPT !.at = consumer.at]
       \/ consumer \in [at : {"found", "sent"}, note : Notes]
    /\ delivered \in [Notes -> Nat]
    /\ due \subseteq Notes
    /\ faults \in Nat /\ restarts \in Nat

\* No announcement is lost between a handler's commit and the consumer's read,
\* though a full channel drops it and the consumer empties the channel before
\* it reads: while a row that was announced is unsent, the consumer is about to
\* read or will be woken up.
NoLostAnnouncement ==
    due \cap Unsent # {} => token \/ consumer.at = "taken"

\* A notification is shown once, and once more at most for each failure and
\* restart: the consumer delivers at least once and never repeats itself
\* without a cause.
DuplicateCostsFailure ==
    \A n \in Notes : delivered[n] <= 1 + faults + restarts

\* Nothing is given up: a row marked as sent has been shown, and a transaction
\* that was rolled back notifies nobody.
SentWasDelivered ==
    \A n \in Notes :
        /\ row[n] = "sent" => delivered[n] > 0
        /\ row[n] \in {"none", "open", "dropped"} => delivered[n] = 0

\* An announcement drains the queue: every row that is unsent when somebody
\* announces is marked as sent at last, whatever fails meanwhile, unless a
\* failed read loses the announcement.
AnnouncementDrains ==
    \A n \in Notes :
        (n \in due /\ row[n] = "unsent") ~> (row[n] = "sent" \/ n \notin due)

(* What the code means to ensure and does not *)

\* notificationconsumer.go:56: "notification queue is empty, waiting for
\* announcement to resume consumption": the consumer waits for as long as the
\* queue is empty, or somebody is about to announce.
WaitsOnlyWhenEmpty ==
    consumer.at = "waiting" /\ ~ token =>
        Unsent = {} \/ \E s \in Senders : sender[s].at = "committed"

=============================================================================
