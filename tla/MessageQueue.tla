---------------------------- MODULE MessageQueue ----------------------------
(***************************************************************************)
(* The message queue of a HandlerThread: Handlers of several threads post  *)
(* messages with a due time, the looper thread takes them, and quit ends   *)
(* it.  _thisMutex guards the list and _blocked, another mutex and         *)
(* condition variable make the looper sleep, and between the two the       *)
(* looper holds neither: it has decided to sleep and does not sleep yet.   *)
(* The clock is the one of the code, in milliseconds; it does not go back. *)
(* Barriers, asynchronous messages, idle handlers, messages posted to the  *)
(* front and removals by handler have no user in the program.              *)
(***************************************************************************)
EXTENDS Integers, Sequences

CONSTANTS
  Senders,  \* threads that post
  Delays,   \* what they pass to sendMessageDelayed
  MaxPosts, \* bound: messages of a thread
  MaxTime   \* bound: the last moment of the clock, and of a due time

ASSUME QueueAssumption == Delays \subseteq Nat /\ MaxPosts \in Nat /\ MaxTime \in Nat

VARIABLES
  now,
  messages,  \* _messagesPtr, the list
  quitting,  \* _quitting
  blocked,   \* _blocked
  looper,    \* where the looper thread is
  timer,     \* nextPollTimeoutMillis before the sleep, then when the sleep ends
  post,      \* sender -> the message it is about to enqueue, or NoPost
  sent,      \* sender -> messages it has posted
  handled    \* <<sender, delay>> -> the last of them that was handled

looperVars == <<looper, timer>>
senderVars == <<post, sent>>
queueVars  == <<now, messages, quitting, blocked, looperVars, senderVars, handled>>

Message == [from : Senders, n : 1..MaxPosts, delay : Delays, when : 0..MaxTime]

NoPost == [n |-> 0]

TypeOK ==
  /\ now \in 0..MaxTime
  /\ messages \in Seq(Message)
  /\ quitting \in BOOLEAN /\ blocked \in BOOLEAN
  /\ looper \in {"checks", "polls", "sleeps", "handles", "ended"}
  /\ timer \in -1..MaxTime
  /\ post \in [Senders -> Message \cup {NoPost}]
  /\ \A s \in Senders : post[s] # NoPost => post[s].from = s
  /\ sent \in [Senders -> 0..MaxPosts]
  /\ handled \in [Senders \X Delays -> 0..MaxPosts]

Due(m) == m.when <= now
-----------------------------------------------------------------------------
Tick ==
  /\ now < MaxTime
  /\ now' = now + 1
  /\ UNCHANGED <<messages, quitting, blocked, looperVars, senderVars, handled>>

\* sendMessageDelayed reads the clock before anything is locked.
Stamp(s, d) ==
  /\ post[s] = NoPost /\ sent[s] < MaxPosts /\ now + d <= MaxTime
  /\ sent' = [sent EXCEPT ![s] = @ + 1]
  /\ post' = [post EXCEPT ![s] = [from |-> s, n |-> sent[s] + 1, delay |-> d, when |-> now + d]]
  /\ UNCHANGED <<now, messages, quitting, blocked, looperVars, handled>>

\* Mutant: a message goes before those that are due at the same time.
FirstOfItsTime(i, m) ==
  /\ \A j \in 1 .. i - 1 : messages[j].when < m.when
  /\ i <= Len(messages) => m.when <= messages[i].when

\* i is the place of m: after the messages that are due no later.
IsPlace(i, m) ==
  /\ \A j \in 1 .. i - 1 : messages[j].when <= m.when
  /\ i <= Len(messages) => m.when < messages[i].when

Insert(i, m) ==
  [j \in 1 .. Len(messages) + 1 |->
     IF j < i THEN messages[j] ELSE IF j = i THEN m ELSE messages[j - 1]]

\* nativeWake: whoever is not in the wait is not woken.
NativeWake == IF looper = "sleeps" THEN looper' = "checks" /\ timer' = 0
                                   ELSE UNCHANGED looperVars

\* enqueueMessage; a new head wakes the looper if it is known to sleep.
Enqueue(s) ==
  /\ post[s] # NoPost
  /\ \/ quitting /\ UNCHANGED <<messages, looperVars>>
     \/ /\ ~quitting
        /\ \E i \in 1 .. Len(messages) + 1 :
             /\ IsPlace(i, post[s])
             /\ messages' = Insert(i, post[s])
             /\ IF i = 1 /\ blocked THEN NativeWake ELSE UNCHANGED looperVars
  /\ post' = [post EXCEPT ![s] = NoPost]
  /\ UNCHANGED <<now, quitting, blocked, sent, handled>>
-----------------------------------------------------------------------------
\* One round of next() under _thisMutex: take the head, or end, or go to sleep.
Deliver ==
  /\ looper = "checks" /\ messages # <<>> /\ Due(Head(messages))
  /\ messages' = Tail(messages)
  /\ handled' = [handled EXCEPT ![<<Head(messages).from, Head(messages).delay>>] = Head(messages).n]
  /\ looper' = "handles" /\ blocked' = FALSE
  /\ UNCHANGED <<now, quitting, timer, senderVars>>

NothingDue == messages # <<>> => ~Due(Head(messages))

End ==
  /\ looper = "checks" /\ NothingDue /\ quitting
  /\ looper' = "ended"
  /\ UNCHANGED <<now, messages, quitting, blocked, timer, senderVars, handled>>

DecideToSleep ==
  /\ looper = "checks" /\ NothingDue /\ ~quitting
  /\ timer' = IF messages = <<>> THEN -1 ELSE Head(messages).when - now
  /\ blocked' = TRUE /\ looper' = "polls"
  /\ UNCHANGED <<now, messages, quitting, senderVars, handled>>

\* Mutant: without a message the looper sleeps until it is woken.
NeverWithoutMessages == IF timer = -1 THEN MaxTime + 1
                        ELSE IF now + timer > MaxTime THEN MaxTime ELSE now + timer

\* wait_for returns at once for the timeout of an empty queue, which is -1.
\* No sleep ends after the last moment of the clock.
EndOfSleep == IF now + timer > MaxTime THEN MaxTime ELSE now + timer

\* nativePollOnce, up to the wait ...
Sleep ==
  /\ looper = "polls"
  /\ looper' = "sleeps" /\ timer' = EndOfSleep
  /\ UNCHANGED <<now, messages, quitting, blocked, senderVars, handled>>

\* ... and its end without a notification: the timeout, or no reason at all.
WakeUp ==
  /\ looper = "sleeps" /\ looper' = "checks" /\ timer' = 0
  /\ UNCHANGED <<now, messages, quitting, blocked, senderVars, handled>>

\* dispatchMessage returns; the next call of next() starts without a sleep.
Handled ==
  /\ looper = "handles"
  /\ looper' = "checks"
  /\ UNCHANGED <<now, messages, quitting, blocked, timer, senderVars, handled>>
-----------------------------------------------------------------------------
\* Mutant: messages that are not due yet survive a safe quit.
KeepsAll(k) == k = Len(messages)

\* The first k messages are due, and the one after them is not.
DuePrefix(k) ==
  /\ \A j \in 1..k : Due(messages[j])
  /\ k < Len(messages) => ~Due(messages[k + 1])

\* quit(true) keeps what is due, quit(false) keeps nothing.
Quit(safe) ==
  /\ ~quitting /\ quitting' = TRUE
  /\ \/ /\ safe
        /\ \E k \in 0..Len(messages) : DuePrefix(k) /\ messages' = SubSeq(messages, 1, k)
     \/ ~safe /\ messages' = <<>>
  /\ NativeWake
  /\ UNCHANGED <<now, blocked, senderVars, handled>>
-----------------------------------------------------------------------------
Init ==
  /\ now = 0 /\ messages = <<>> /\ quitting = FALSE /\ blocked = FALSE
  /\ looper = "checks" /\ timer = 0
  /\ post = [s \in Senders |-> NoPost] /\ sent = [s \in Senders |-> 0]
  /\ handled = [c \in Senders \X Delays |-> 0]

Looper == Deliver \/ End \/ DecideToSleep \/ Sleep \/ Handled

Next ==
  \/ Tick
  \/ \E s \in Senders : Enqueue(s) \/ \E d \in Delays : Stamp(s, d)
  \/ Looper \/ WakeUp
  \/ \E safe \in BOOLEAN : Quit(safe)

Spec == Init /\ [][Next]_queueVars

\* Time goes on, the looper runs, a sleep ends when its time is over.
FairSpec == Spec /\ WF_queueVars(Tick) /\ WF_queueVars(Looper)
                 /\ WF_queueVars(timer <= now /\ WakeUp)
-----------------------------------------------------------------------------
SameSource(m, k) == m.from = k.from /\ m.delay = k.delay

\* MessageQueue.cpp:250, on which the datagrams of UDTMultiplexer rely: messages
\* that a thread posts with the same delay are handled in the order of posting,
\* though the due time is taken outside the lock.
QueueKeepsSendOrder ==
  /\ \A i, j \in 1..Len(messages) :
       i < j /\ SameSource(messages[i], messages[j]) => messages[i].n < messages[j].n
  /\ \A i \in 1..Len(messages) :
       handled[<<messages[i].from, messages[i].delay>>] < messages[i].n

\* MessageQueue.cpp:109: whatever quit has left in the queue is handled before
\* the thread ends, and nothing gets in behind it.
NothingIsLeftBehind == looper = "ended" => messages = <<>>

\* MessageQueue.cpp:421: though a notification that comes between the decision
\* to sleep and the wait is lost, every message leaves the queue.
EveryMessageLeaves ==
  \A s \in Senders, n \in 1..MaxPosts :
    LET waits == \E i \in 1..Len(messages) : messages[i].from = s /\ messages[i].n = n
    IN  waits ~> ~waits
=============================================================================
