------------------------------ MODULE Notify -------------------------------
(***************************************************************************)
(* tokio::sync::Notify, from how auth/jwks_cache.rs uses it: one optional  *)
(* permit, a FIFO list of waiting futures, and the notifications that were *)
(* handed to a future which has not been polled since.                     *)
(***************************************************************************)
EXTENDS Sequences, SequencesExt

VARIABLES
  permit,   \* a stored notify_one
  waiters,  \* futures polled and pending, in order
  ones,     \* futures that were handed a notify_one
  alls      \* futures that were woken by notify_waiters

notifyVars == <<permit, waiters, ones, alls>>

NotifyInit ==
  /\ permit = FALSE
  /\ waiters = <<>>
  /\ ones = {}
  /\ alls = {}

\* Hands one notification to the first of queue, or stores it.
HandOver(queue, others) ==
  IF queue # <<>>
    THEN /\ waiters' = Tail(queue)
         /\ ones' = others \cup {Head(queue)}
         /\ UNCHANGED permit
    ELSE /\ waiters' = queue
         /\ ones' = others
         /\ permit' = TRUE

notify_one == HandOver(waiters, ones) /\ UNCHANGED alls

\* Wakes everyone who waits now, and stores nothing.
notify_waiters ==
  /\ waiters' = <<>>
  /\ alls' = alls \cup Range(waiters)
  /\ UNCHANGED <<permit, ones>>

\* The first poll of a new future: it takes the permit or joins the waiters.
PollTakesPermit ==
  /\ permit
  /\ permit' = FALSE
  /\ UNCHANGED <<waiters, ones, alls>>

PollWaits(task) ==
  /\ ~permit
  /\ waiters' = Append(waiters, task)
  /\ UNCHANGED <<permit, ones, alls>>

\* A later poll finds the notification.
PollWoken(task) ==
  /\ task \in ones \cup alls
  /\ ones' = ones \ {task}
  /\ alls' = alls \ {task}
  /\ UNCHANGED <<permit, waiters>>

\* Dropping a future passes an unused notify_one on.
DropFuture(task) ==
  /\ alls' = alls \ {task}
  /\ LET others == SelectSeq(waiters, LAMBDA w : w # task)
     IN  IF task \in ones
           THEN HandOver(others, ones \ {task})
           ELSE waiters' = others /\ UNCHANGED <<permit, ones>>

=============================================================================
