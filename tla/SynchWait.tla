----------------------------- MODULE SynchWait -----------------------------
(***************************************************************************)
(* One struct synch_wait with its mutex: threads that call sleep_on        *)
(* (tcp_sock_connect, tcp_sock_accept, tcp_send_data) and threads that     *)
(* call wake_up (the packet thread, from the TCP state machine) or         *)
(* wait_exit.  In this stack every structure has one sleeper; the module   *)
(* is stated for any set of them.                                          *)
(***************************************************************************)
EXTENDS WaitOps, Integers

CONSTANTS Sleepers,   \* the threads that call sleep_on on this structure
          Wakers,     \* the threads that call wake_up or wait_exit
          Nobody,     \* the owner of a free mutex
          Spurious    \* may pthread_cond_wait return without a signal?

Threads == Sleepers \cup Wakers

ASSUME ThreadsAssumption == /\ Sleepers \cap Wakers = {}
                            /\ Nobody \notin Threads
                            /\ Spurious \in BOOLEAN

VARIABLES w,          \* the flags of the structure
          lock,       \* the owner of wait->lock
          pc,         \* where each thread is in its call
          ret         \* what its last call returned: -(wait->dead)

waitVars == <<w, lock, pc, ret>>

PCs == {"idle", "sleep_on", "blocked", "wake_up", "wait_exit", "unlock", "return"}

WaitTypeOK ==
  /\ w \in WaitStruct(Sleepers)
  /\ lock \in Threads \cup {Nobody}
  /\ pc \in [Threads -> PCs]
  /\ ret \in [Threads -> {0, -1}]

WaitInit ==
  /\ w = wait_init
  /\ lock = Nobody
  /\ pc = [t \in Threads |-> "idle"]
  /\ ret = [t \in Threads |-> 0]

-----------------------------------------------------------------------------
Goto(t, p) == pc' = [pc EXCEPT ![t] = p]

\* pthread_mutex_lock at the head of the operation op.
Lock(t, op) ==
  /\ pc[t] = "idle"
  /\ lock = Nobody
  /\ lock' = t
  /\ Goto(t, op)
  /\ UNCHANGED <<w, ret>>

\* sleep_on under the lock; pthread_cond_wait releases it while t is blocked.
SleepOn(t) ==
  /\ pc[t] = "sleep_on"
  /\ w' = sleep_on(w, t)
  /\ IF t \in w'.waiting
     THEN lock' = Nobody /\ Goto(t, "blocked")
     ELSE lock' = lock   /\ Goto(t, "unlock")
  /\ UNCHANGED ret

\* pthread_cond_wait returns with the lock held, and sleep_on clears its flags.
CondWaitReturn(t) ==
  /\ pc[t] = "blocked"
  /\ lock = Nobody
  /\ CanResume(w, t, Spurious)
  /\ lock' = t
  /\ w' = resume(w, t)
  /\ Goto(t, "unlock")
  /\ UNCHANGED ret

WakeUp(t) ==
  /\ pc[t] = "wake_up"
  /\ w' \in wake_up(w)
  /\ Goto(t, "unlock")
  /\ UNCHANGED <<lock, ret>>

WaitExit(t) ==
  /\ pc[t] = "wait_exit"
  /\ w' = wait_exit(w)
  /\ Goto(t, "unlock")
  /\ UNCHANGED <<lock, ret>>

Unlock(t) ==
  /\ pc[t] = "unlock"
  /\ lock' = Nobody
  /\ Goto(t, "return")
  /\ UNCHANGED <<w, ret>>

\* Mutant of Return: wait->dead is returned as it is.
Return_NoSign(t) ==
  /\ pc[t] = "return"
  /\ ret' = [ret EXCEPT ![t] = IF w.dead THEN 1 ELSE 0]
  /\ Goto(t, "idle")
  /\ UNCHANGED <<w, lock>>

\* return -(wait->dead), read after the lock has been released.
Return(t) ==
  /\ pc[t] = "return"
  /\ ret' = [ret EXCEPT ![t] = IF w.dead THEN -1 ELSE 0]
  /\ Goto(t, "idle")
  /\ UNCHANGED <<w, lock>>

SleeperStep(t) == Lock(t, "sleep_on") \/ SleepOn(t) \/ CondWaitReturn(t)
WakerStep(t) ==
  Lock(t, "wake_up") \/ Lock(t, "wait_exit") \/ WakeUp(t) \/ WaitExit(t)

WaitNext == \/ \E t \in Sleepers : SleeperStep(t)
            \/ \E t \in Wakers : WakerStep(t)
            \/ \E t \in Threads : Unlock(t) \/ Return(t)

\* The scheduler runs a thread that can run, and a thread that waits for the
\* mutex gets it eventually; nothing obliges anyone to make a call.
Fairness ==
  /\ \A t \in Sleepers : WF_waitVars(SleepOn(t)) /\ SF_waitVars(CondWaitReturn(t))
  /\ \A t \in Wakers   : WF_waitVars(WakeUp(t)) /\ WF_waitVars(WaitExit(t))
  /\ \A t \in Threads  : WF_waitVars(Unlock(t)) /\ WF_waitVars(Return(t))

WaitSpec == WaitInit /\ [][WaitNext]_waitVars /\ Fairness

-----------------------------------------------------------------------------
\* The field comment "whether others are waiting": wait->sleep is set as long
\* as a thread blocked in sleep_on has not been released.  wake_up and
\* wait_exit rely on it when they decide whether to signal.
SleepFlagTells == (\E t \in w.waiting : t \notin w.signaled) => w.sleep

\* No lost wakeup: once wake_up has set notified, or wait_exit has set dead,
\* no thread stays blocked in sleep_on without a signal on its way.
NoLostWakeup == (w.notified \/ w.dead) => w.waiting \subseteq w.signaled

\* sleep_on stops waiting only for a reason: pthread_cond_wait returns to the
\* caller only when wake_up has been called since the last sleep_on, or after
\* wait_exit ("sleep on waiting for notification").
JustifiedReturn ==
  [][\A t \in Sleepers : CondWaitReturn(t) => w.notified \/ w.dead]_waitVars

\* Every notification gets through: a thread blocked in sleep_on returns from it
\* once wake_up has been called, and after wait_exit ("exit and notify all
\* others") nobody is blocked, for good.
Released ==
  /\ \A t \in Sleepers : (t \in w.waiting /\ w.notified) ~> (pc[t] = "return")
  /\ w.dead ~> [](w.waiting = {})
=============================================================================
