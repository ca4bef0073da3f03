------------------------------ MODULE WaitOps ------------------------------
(***************************************************************************)
(* The operations of struct synch_wait (include/synch_wait.h of the TCP    *)
(* labs) as operators on a record.  Each operation runs under wait->lock,  *)
(* so it is one atomic change of the record; a thread that blocks in       *)
(* pthread_cond_wait releases the lock and is remembered in "waiting", and *)
(* in "signaled" once a signal or broadcast has been delivered to it.      *)
(* SynchWait studies the structure by itself; TcpConn and TcpData use it.  *)
(***************************************************************************)
EXTENDS FiniteSets

\* The states of a wait structure shared by the threads in T.
WaitStruct(T) == [notified : BOOLEAN, dead : BOOLEAN, sleep : BOOLEAN,
                  waiting : SUBSET T, signaled : SUBSET T]

wait_init == [notified |-> FALSE, dead |-> FALSE, sleep |-> FALSE,
              waiting |-> {}, signaled |-> {}]

\* Mutant of sleep_on: it blocks without setting sleep.
sleep_on_NoFlag(w, t) ==
  IF w.dead THEN w
  ELSE IF w.notified
       THEN [w EXCEPT !.notified = FALSE, !.sleep = FALSE]
       ELSE [w EXCEPT !.waiting = @ \cup {t}]

\* sleep_on up to the point where thread t blocks or has the lock to leave:
\* t blocks exactly when it is in the result's "waiting".
sleep_on(w, t) ==
  IF w.dead THEN w
  ELSE IF w.notified
       THEN [w EXCEPT !.notified = FALSE, !.sleep = FALSE]
       ELSE [w EXCEPT !.sleep = TRUE, !.waiting = @ \cup {t}]

\* May pthread_cond_wait return to thread t?  POSIX lets it return without a
\* signal too ("spurious").
CanResume(w, t, spurious) == t \in w.waiting /\ (t \in w.signaled \/ spurious)

\* The rest of sleep_on, after pthread_cond_wait has returned to t.
resume(w, t) == [w EXCEPT !.notified = FALSE, !.sleep = FALSE,
                          !.waiting = @ \ {t}, !.signaled = @ \ {t}]

\* pthread_cond_signal: one blocked thread is released, if there is any.
Signal(w) ==
  IF w.waiting \subseteq w.signaled THEN {w}
  ELSE {[w EXCEPT !.signaled = @ \cup {t}] : t \in w.waiting \ w.signaled}

\* Mutant of wake_up: it signals a sleeper without setting notified.
wake_up_NoNotified(w) ==
  IF w.dead \/ w.notified THEN {w}
  ELSE IF w.sleep THEN Signal(w) ELSE {[w EXCEPT !.notified = TRUE]}

\* wake_up, as the set of its possible results.
wake_up(w) ==
  IF w.dead \/ w.notified THEN {w}
  ELSE LET n == [w EXCEPT !.notified = TRUE]
       IN  IF w.sleep THEN Signal(n) ELSE {n}

\* Mutant of wait_exit: it wakes nobody.
wait_exit_NoBroadcast(w) == [w EXCEPT !.dead = TRUE]

\* wait_exit: broadcast releases every blocked thread.
wait_exit(w) ==
  IF w.dead THEN w
  ELSE [w EXCEPT !.dead = TRUE,
                 !.signaled = IF w.sleep THEN w.waiting ELSE @]
=============================================================================
