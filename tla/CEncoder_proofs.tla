-------------------------- MODULE CEncoder_proofs --------------------------
(***************************************************************************)
(* Proofs about CEncoder for any number of threads and any rates: the      *)
(* types; that the table implements RateSettings; that there is one        *)
(* encoder; that nothing crashes between init and destroy; and that no     *)
(* call that locks the mutex meets an encoder destroy has deleted.  All    *)
(* follow from one inductive invariant, IInv.  Last, that every call that  *)
(* locks the mutex gives it back.                                          *)
(***************************************************************************)
EXTENDS CEncoder, TLAPS

Ops == Adjusting \union Using \union {"init", "destroy"}

\* Only the owner initialises and destroys, and each place belongs to some calls.
Roles ==
  \A t \in Threads :
    /\ call[t].op \in {"init", "destroy"} => t = Owner
    /\ call[t].at = "opened" => call[t].op = "init"
    /\ call[t].at = "adjusted" => call[t].op \in Adjusting
    /\ call[t].at \in {"emptied", "unlocking", "deleting", "nulling"} => call[t].op = "destroy"
    /\ call[t].at = "leaving" => call[t].op # "destroy"
    /\ call[t].at # "idle" => call[t].rate \in RatesOf(call[t].op)

\* A call that may read or write the encoder's parameters holds the mutex.
Holds(c) == \/ c.at \in {"opened", "adjusted", "leaving", "emptied", "unlocking"}
            \/ c.at = "inside" /\ c.op # "get_framesize"
Exclusion == \A t \in Threads : Holds(call[t]) => mutex = t

\* Where the owner is determines what is left of the encoder and of nvenc_data.
Lifetime ==
  /\ object = "none" => handle = "null" /\ initResult = "none" /\ call[Owner].at = "idle"
  /\ nvenc = "dangling" <=> call[Owner].at = "emptied"
  /\ call[Owner].at = "opened" => nvenc = "opened"
  /\ object = "deleted" => handle = "null" \/ call[Owner].at = "nulling"
  /\ call[Owner].at = "nulling" => object = "deleted"
  /\ initResult = "ok" /\ object = "alive" /\ call[Owner].op # "destroy" => nvenc = "ready"

\* There is no encoder before nvenc_data is made, nor once destroy gives up the
\* mutex; until then an adjusting call that holds it has one.
Guarded == /\ \/ object # "alive"
              \/ call[Owner].at \in {"unlocking", "deleting", "nulling"}
              => nvenc = "null"
           /\ \A t \in Threads : call[t].at = "adjusted" => nvenc # "null"
           /\ object = "deleted" => call[Owner].at \in {"idle", "nulling"}

\* An encoder that is complete or broke off believes what the driver uses.
Mirror == /\ nvenc \in {"half", "ready"} => config = driver /\ driver.bitrate # 0
          /\ nvenc \notin {"half", "ready"} => driver = NoConfig

\* What an adjusting call is about to send is up to date.
Fresh == \A t \in Threads :
           call[t].at = "adjusted" => call[t].copy = Adjusted(call[t].op, call[t].rate, config)

IInv == /\ TypeOK /\ Roles /\ Exclusion /\ Lifetime /\ Guarded /\ Mirror /\ Fresh
        /\ OneEncoder /\ UsableFromInitToDestroy

-----------------------------------------------------------------------------
(* Calls. *)

LEMMA RateType == ASSUME NEW op \in Ops, NEW r \in RatesOf(op) PROVE r \in Nat
  BY RatesAreNat DEF RatesOf, Ops

LEMMA Calls ==
  ASSUME TypeOK, NEW t \in Threads
  PROVE  /\ call[t] = NoCall <=> call[t].at = "idle"
         /\ call[t].at # "idle" => call[t] \in CallInProgress
         /\ call[t].copy \in Config /\ call[t].rate \in Nat
<1>1. call[t] \in CallInProgress \union {NoCall} BY DEF TypeOK
<1>2. NoCall.at = "idle" /\ NoCall.copy \in Config /\ NoCall.rate = 0 BY DEF NoCall, NoConfig, Config
<1>3. ASSUME call[t] \in CallInProgress
      PROVE  call[t].at \in Places /\ call[t].copy \in Config /\ call[t].rate \in Nat
  BY <1>3 DEF CallInProgress
<1>4. "idle" \notin Places BY DEF Places
<1> QED BY <1>1, <1>2, <1>3, <1>4

\* A step that only moves a call on.
LEMMA Moves ==
  ASSUME TypeOK, NEW t \in Threads, NEW s \in Places, call[t].at # "idle", Goto(t, s)
  PROVE  /\ call' \in [Threads -> CallInProgress \union {NoCall}]
         /\ \A u \in Threads : u # t => call'[u] = call[u]
         /\ call'[t].at = s /\ call'[t].op = call[t].op /\ call'[t].rate = call[t].rate
         /\ call'[t].copy = call[t].copy
<1>1. call \in [Threads -> CallInProgress \union {NoCall}] BY DEF TypeOK
<1>2. call[t] \in CallInProgress BY Calls
<1> DEFINE new == [call[t] EXCEPT !.at = s]
<1>3. new \in CallInProgress BY <1>2 DEF CallInProgress
<1>4. new.at = s /\ new.op = call[t].op /\ new.rate = call[t].rate
      /\ new.copy = call[t].copy
  BY <1>2 DEF CallInProgress
<1>5. call' = [call EXCEPT ![t] = new] BY DEF Goto
<1> HIDE DEF new
<1> QED BY <1>1, <1>3, <1>4, <1>5

LEMMA Ends ==
  ASSUME TypeOK, NEW t \in Threads, call' = [call EXCEPT ![t] = NoCall]
  PROVE  /\ call' \in [Threads -> CallInProgress \union {NoCall}]
         /\ \A u \in Threads : u # t => call'[u] = call[u]
         /\ call'[t] = NoCall /\ call'[t].at = "idle" /\ call'[t].op = "none"
<1>1. call \in [Threads -> CallInProgress \union {NoCall}] BY DEF TypeOK
<1>2. call'[t] = NoCall BY <1>1
<1>3. NoCall.at = "idle" /\ NoCall.op = "none" BY DEF NoCall
<1>4. call' \in [Threads -> CallInProgress \union {NoCall}] BY <1>1
<1> QED BY <1>1, <1>2, <1>3, <1>4

LEMMA Begins ==
  ASSUME TypeOK, NEW t \in Threads, NEW op \in Ops, NEW r \in RatesOf(op), Call(t, op, r)
  PROVE  /\ call' \in [Threads -> CallInProgress \union {NoCall}]
         /\ \A u \in Threads : u # t => call'[u] = call[u]
         /\ call'[t].op = op /\ call'[t].rate = r
         /\ call'[t].at = IF op = "get_framesize" THEN "inside" ELSE "locking"
<1>1. call \in [Threads -> CallInProgress \union {NoCall}] BY DEF TypeOK
<1> DEFINE new == [op |-> op, rate |-> r, copy |-> NoConfig,
                   at |-> IF op = "get_framesize" THEN "inside" ELSE "locking"]
<1>2. r \in Nat BY RateType
<1>3. NoConfig \in Config BY DEF NoConfig, Config
<1>4. new \in CallInProgress BY <1>2, <1>3 DEF CallInProgress, Places, Ops
<1>5. /\ new.op = op /\ new.rate = r
      /\ new.at = IF op = "get_framesize" THEN "inside" ELSE "locking"
  OBVIOUS
<1>6. call' = [call EXCEPT ![t] = new] BY DEF Call
<1> HIDE DEF new
<1> QED BY <1>1, <1>4, <1>5, <1>6

LEMMA AdjustedType ==
  ASSUME NEW op, NEW r \in Nat, NEW c \in Config
  PROVE  Adjusted(op, r, c) \in Config
  BY DEF Adjusted, Config

LEMMA InitIInv == Init => IInv
<1> SUFFICES ASSUME Init PROVE IInv OBVIOUS
<1> USE DEF Init
<1>1. NoConfig \in Config BY DEF NoConfig, Config
<1>2. \A t \in Threads : /\ call[t] = NoCall /\ call[t].at = "idle" /\ call[t].op = "none"
  BY DEF NoCall
<1>3. Owner \in Threads BY DEF Threads
<1>4. TypeOK BY <1>1 DEF TypeOK
<1>5. Roles /\ Fresh BY <1>2 DEF Roles, Fresh
<1>6. Exclusion BY <1>2 DEF Exclusion, Holds
<1>7. Lifetime /\ Guarded BY <1>2, <1>3 DEF Lifetime, Guarded
<1>8. Mirror /\ OneEncoder /\ UsableFromInitToDestroy
  BY DEF Mirror, OneEncoder, UsableFromInitToDestroy
<1> QED BY <1>4, <1>5, <1>6, <1>7, <1>8 DEF IInv

-----------------------------------------------------------------------------
(* Each step keeps the invariant. *)

\* A call starts.
LEMMA CallKeeps ==
  ASSUME IInv, NEW t \in Threads, NEW op \in Ops, NEW r \in RatesOf(op),
         op \in {"init", "destroy"} => t = Owner, Call(t, op, r)
  PROVE  IInv'
<1> USE DEF IInv
<1>0. Owner \in Threads BY DEF Threads
<1>1. /\ call' \in [Threads -> CallInProgress \union {NoCall}]
      /\ \A u \in Threads : u # t => call'[u] = call[u]
      /\ call'[t].op = op /\ call'[t].rate = r
      /\ call'[t].at = IF op = "get_framesize" THEN "inside" ELSE "locking"
  BY Begins
<1>2. call[t].at = "idle" /\ (IF t = Owner THEN handle = "data" ELSE object # "none")
  BY DEF Call, HasHandle
<1>3. call[t].op = "none" BY <1>2, Calls DEF NoCall
<1>4. UNCHANGED <<handle, object, mutex, nvenc, live, config, driver, initResult, fault>> BY DEF Call
<1>5. TypeOK' BY <1>1, <1>4 DEF TypeOK
<1>6. Roles' BY <1>1 DEF Roles
<1>7. Exclusion' BY <1>1, <1>4 DEF Exclusion, Holds
<1>8. Lifetime' BY <1>0, <1>1, <1>2, <1>3, <1>4 DEF Lifetime
<1>9. Guarded' BY <1>0, <1>1, <1>2, <1>4 DEF Guarded, Lifetime
<1>10. Mirror' BY <1>4 DEF Mirror
<1>11. Fresh' BY <1>1, <1>4 DEF Fresh
<1>12. OneEncoder' /\ UsableFromInitToDestroy'
  BY <1>0, <1>1, <1>3, <1>4 DEF OneEncoder, UsableFromInitToDestroy
<1> QED BY <1>5, <1>6, <1>7, <1>8, <1>9, <1>10, <1>11, <1>12

LEMMA CreateKeeps ==
  ASSUME IInv, fault = "none", Create PROVE IInv'
<1> USE DEF IInv, Create
<1>1. TypeOK' BY DEF TypeOK
<1>2. Roles' /\ Exclusion' /\ Fresh' BY DEF Roles, Exclusion, Holds, Fresh
<1>3. Lifetime' /\ Guarded'
  <2>1. /\ object = "none" /\ initResult = "none" /\ call[Owner].at = "idle"
        /\ object' = "alive" /\ UNCHANGED <<nvenc, call, initResult>>
    BY DEF Lifetime
  <2> QED BY <2>1 DEF Lifetime, Guarded
<1>4. Mirror' /\ OneEncoder' /\ UsableFromInitToDestroy'
  BY DEF Mirror, OneEncoder, UsableFromInitToDestroy
<1> QED BY <1>1, <1>2, <1>3, <1>4

LEMMA LockKeeps ==
  ASSUME IInv, fault = "none", NEW t \in Threads, Lock(t) PROVE IInv'
<1> USE DEF IInv
<1>0. Owner \in Threads BY DEF Threads
<1>1. /\ call' \in [Threads -> CallInProgress \union {NoCall}]
      /\ \A u \in Threads : u # t => call'[u] = call[u]
      /\ call'[t].at = "inside" /\ call'[t].op = call[t].op /\ call'[t].rate = call[t].rate
      /\ call'[t].copy = call[t].copy
  BY Moves DEF Lock, Places
<1>2. /\ call[t].at = "locking" /\ mutex = Nobody /\ mutex' = t
      /\ UNCHANGED <<handle, object, nvenc, live, config, driver, initResult, fault>>
  BY DEF Lock, LockIsFree
<1>3. Nobody \notin Threads BY ThreadsDiffer DEF Threads
<1>4. TypeOK' BY <1>1, <1>2 DEF TypeOK
<1>5. Roles' BY <1>1, <1>2 DEF Roles
<1>6. Exclusion' BY <1>1, <1>2, <1>3 DEF Exclusion, Holds
<1>7. Lifetime' /\ Guarded' BY <1>0, <1>1, <1>2 DEF Lifetime, Guarded
<1>8. Fresh' BY <1>1, <1>2 DEF Fresh
<1>9. Mirror' /\ OneEncoder' BY <1>2 DEF Mirror, OneEncoder
<1>10. UsableFromInitToDestroy' BY <1>0, <1>1, <1>2 DEF UsableFromInitToDestroy
<1> QED BY <1>4, <1>5, <1>6, <1>7, <1>8, <1>9, <1>10

\* A call goes on inside the mutex, or after it.
LEMMA GotoKeeps ==
  ASSUME IInv, NEW t \in Threads, NEW s \in Places, call[t].at # "idle", Goto(t, s),
         s # "adjusted", s = "opened" => call[t].op = "init",
         s \in {"emptied", "unlocking", "deleting", "nulling"} <=> call[t].op = "destroy",
         \/ Holds(call[t]) /\ (mutex' = mutex \/ s = "deleting")
         \/ s = "nulling" /\ mutex' = mutex /\ config' = config
  PROVE  /\ call' \in [Threads -> CallInProgress \union {NoCall}]
         /\ \A u \in Threads : u # t => call'[u] = call[u]
         /\ call'[t].at = s /\ call'[t].op = call[t].op
         /\ Roles' /\ Exclusion' /\ Fresh'
<1> USE DEF IInv
<1>1. /\ call' \in [Threads -> CallInProgress \union {NoCall}]
      /\ \A u \in Threads : u # t => call'[u] = call[u]
      /\ call'[t].at = s /\ call'[t].op = call[t].op /\ call'[t].rate = call[t].rate
      /\ call'[t].copy = call[t].copy
  BY Moves
<1>2. Roles' BY <1>1 DEF Roles
<1>4. Exclusion' BY <1>1 DEF Exclusion, Holds
<1>5. ASSUME NEW u \in Threads, u # t, call[u].at = "adjusted" PROVE ~Holds(call[t])
  BY <1>5 DEF Exclusion, Holds
<1>6. Fresh'
  <2> SUFFICES ASSUME NEW u \in Threads, call'[u].at = "adjusted"
               PROVE  call'[u].copy = Adjusted(call'[u].op, call'[u].rate, config')
    BY DEF Fresh
  <2>1. u # t /\ call'[u] = call[u] BY <1>1
  <2>2. config' = config BY <2>1, <1>5
  <2> QED BY <2>1, <2>2 DEF Fresh
<1> QED BY <1>1, <1>2, <1>4, <1>6

\* A call ends.
LEMMA EndKeeps ==
  ASSUME IInv, NEW t \in Threads, call' = [call EXCEPT ![t] = NoCall],
         Holds(call[t]) \/ mutex' = mutex, config' = config
  PROVE  /\ call' \in [Threads -> CallInProgress \union {NoCall}]
         /\ \A u \in Threads : u # t => call'[u] = call[u]
         /\ call'[t].at = "idle" /\ call'[t].op = "none"
         /\ Roles' /\ Exclusion' /\ Fresh'
<1> USE DEF IInv
<1>1. /\ call' \in [Threads -> CallInProgress \union {NoCall}]
      /\ \A u \in Threads : u # t => call'[u] = call[u]
      /\ call'[t].at = "idle" /\ call'[t].op = "none"
  BY Ends
<1>2. Roles' BY <1>1 DEF Roles
<1>3. Exclusion' BY <1>1 DEF Exclusion, Holds
<1>4. Fresh' BY <1>1 DEF Fresh
<1> QED BY <1>1, <1>2, <1>3, <1>4

LEMMA ReturnKeeps ==
  ASSUME IInv, fault = "none", NEW t \in Threads, Return(t) PROVE IInv'
<1> USE DEF IInv
<1>0. Owner \in Threads BY DEF Threads
<1>1. /\ call[t].at = "leaving" /\ object = "alive" /\ mutex' = Nobody
      /\ call' = [call EXCEPT ![t] = NoCall]
      /\ UNCHANGED <<handle, object, nvenc, live, config, driver, initResult, fault>>
  BY DEF Return
<1>2. Holds(call[t]) BY <1>1 DEF Holds
<1>3. /\ call' \in [Threads -> CallInProgress \union {NoCall}]
      /\ \A u \in Threads : u # t => call'[u] = call[u]
      /\ call'[t].at = "idle" /\ call'[t].op = "none"
      /\ Roles' /\ Exclusion' /\ Fresh'
  BY <1>1, <1>2, EndKeeps
<1>4. TypeOK' BY <1>1, <1>3 DEF TypeOK
<1>5. Lifetime' /\ Guarded'
  <2>1. CASE t = Owner
    <3>1. call[t].op # "destroy" BY <1>1 DEF Roles
    <3> QED BY <2>1, <3>1, <1>1, <1>3 DEF Lifetime, Guarded
  <2>2. CASE t # Owner BY <2>2, <1>0, <1>1, <1>3 DEF Lifetime, Guarded
  <2> QED BY <2>1, <2>2
<1>6. Mirror' /\ OneEncoder' BY <1>1 DEF Mirror, OneEncoder
<1>7. UsableFromInitToDestroy' BY <1>1 DEF UsableFromInitToDestroy
<1> QED BY <1>3, <1>4, <1>5, <1>6, <1>7

LEMMA UseFreedKeeps ==
  ASSUME IInv, NEW t \in Threads, UseFreed(t) PROVE IInv'
<1> USE DEF IInv, UseFreed
<1>1. TypeOK' BY DEF TypeOK
<1>2. Roles' /\ Exclusion' /\ Fresh' BY DEF Roles, Exclusion, Fresh
<1>3. Lifetime' /\ Guarded' BY DEF Lifetime, Guarded
<1>4. Mirror' /\ OneEncoder' BY DEF Mirror, OneEncoder
<1>5. UsableFromInitToDestroy' BY DEF UsableFromInitToDestroy
<1> QED BY <1>1, <1>2, <1>3, <1>4, <1>5

\* A call has nothing to do, or is done, and leaves.
LEMMA LeavingKeeps ==
  ASSUME IInv, fault = "none", NEW t \in Threads, call[t].at = "inside",
         call[t].op \notin {"get_framesize", "destroy"}, Goto(t, "leaving"),
         UNCHANGED <<handle, object, mutex, nvenc, live, config, driver, initResult, fault>>
  PROVE  IInv'
<1> USE DEF IInv
<1>0. Owner \in Threads /\ "leaving" \in Places BY DEF Threads, Places
<1>1. Holds(call[t]) BY DEF Holds
<1>2. /\ call' \in [Threads -> CallInProgress \union {NoCall}]
      /\ \A u \in Threads : u # t => call'[u] = call[u]
      /\ call'[t].at = "leaving" /\ call'[t].op = call[t].op
      /\ Roles' /\ Exclusion' /\ Fresh'
  BY <1>0, <1>1, GotoKeeps
<1>3. TypeOK' BY <1>2 DEF TypeOK
<1>4. Lifetime' /\ Guarded' BY <1>0, <1>2 DEF Lifetime, Guarded
<1>5. Mirror' /\ OneEncoder' BY DEF Mirror, OneEncoder
<1>6. UsableFromInitToDestroy' BY DEF UsableFromInitToDestroy
<1> QED BY <1>2, <1>3, <1>4, <1>5, <1>6

\* A call faults; the encoder is not one that init completed.
LEMMA FaultKeeps ==
  ASSUME IInv, fault' \in {"freed", "null", "divide", "range"},
         nvenc # "ready" \/ config.framerate = 0,
         UNCHANGED <<handle, object, mutex, nvenc, live, config, driver, call, initResult>>
  PROVE  IInv'
<1> USE DEF IInv
<1>1. TypeOK' BY DEF TypeOK
<1>2. Roles' /\ Exclusion' /\ Fresh' BY DEF Roles, Exclusion, Fresh
<1>3. Lifetime' /\ Guarded' BY DEF Lifetime, Guarded
<1>4. Mirror' /\ OneEncoder' BY DEF Mirror, OneEncoder
<1>5. UsableFromInitToDestroy'
  <2>1. driver.framerate = 0 \/ nvenc # "ready" BY DEF Mirror
  <2> QED BY <2>1 DEF Lifetime, UsableFromInitToDestroy
<1> QED BY <1>1, <1>2, <1>3, <1>4, <1>5

LEMMA OpenSessionKeeps ==
  ASSUME IInv, fault = "none", NEW t \in Threads, OpenSession(t) PROVE IInv'
<1> USE DEF IInv
<1>0. {"opened", "leaving"} \subseteq Places BY DEF Places
<1>1. /\ call[t].op = "init" /\ call[t].at = "inside" /\ object = "alive" /\ nvenc = "null"
      /\ UNCHANGED <<handle, object, mutex, driver, fault>>
  BY DEF OpenSession, At, NotYetInitialised
<1>2. Holds(call[t]) BY <1>1 DEF Holds
<1>3. t = Owner BY <1>1 DEF Roles
<1>4. live = 0 BY <1>1 DEF OneEncoder
<1>5. NoConfig \in Config BY DEF NoConfig, Config
<1>6. CASE nvenc' = "opened" /\ live' = live + 1 /\ config' = NoConfig /\ Goto(t, "opened")
           /\ initResult' = initResult
  <2>1. /\ call' \in [Threads -> CallInProgress \union {NoCall}]
        /\ \A u \in Threads : u # t => call'[u] = call[u]
        /\ call'[t].at = "opened" /\ call'[t].op = call[t].op
        /\ Roles' /\ Exclusion' /\ Fresh'
    BY <1>0, <1>1, <1>2, <1>6, GotoKeeps
  <2>2. TypeOK' BY <2>1, <1>1, <1>4, <1>5, <1>6 DEF TypeOK
  <2>3. Lifetime' /\ Guarded' BY <2>1, <1>1, <1>3, <1>6 DEF Lifetime, Guarded
  <2>4. Mirror' BY <1>1, <1>6 DEF Mirror
  <2>5. OneEncoder' BY <1>4, <1>6 DEF OneEncoder
  <2>6. UsableFromInitToDestroy' BY <1>1 DEF UsableFromInitToDestroy
  <2> QED BY <2>1, <2>2, <2>3, <2>4, <2>5, <2>6
<1>7. CASE initResult' = "failed" /\ Goto(t, "leaving") /\ UNCHANGED <<nvenc, live, config>>
  <2>1. /\ call' \in [Threads -> CallInProgress \union {NoCall}]
        /\ \A u \in Threads : u # t => call'[u] = call[u]
        /\ call'[t].at = "leaving" /\ call'[t].op = call[t].op
        /\ Roles' /\ Exclusion' /\ Fresh'
    BY <1>0, <1>1, <1>2, <1>7, GotoKeeps
  <2>2. TypeOK' BY <2>1, <1>1, <1>7 DEF TypeOK
  <2>3. Lifetime' /\ Guarded' BY <2>1, <1>1, <1>3, <1>7 DEF Lifetime, Guarded
  <2>4. Mirror' /\ OneEncoder' BY <1>1, <1>7 DEF Mirror, OneEncoder
  <2>5. UsableFromInitToDestroy' BY <1>1 DEF UsableFromInitToDestroy
  <2> QED BY <2>1, <2>2, <2>3, <2>4, <2>5
<1> QED BY <1>6, <1>7 DEF OpenSession, Thrown

LEMMA CreateEncoderKeeps ==
  ASSUME IInv, fault = "none", NEW t \in Threads, CreateEncoder(t) PROVE IInv'
<1> USE DEF IInv
<1> DEFINE wanted == [bitrate |-> call[t].rate, framerate |-> DefaultFrameRate]
<1>0. "leaving" \in Places BY DEF Places
<1>1. /\ call[t].op = "init" /\ call[t].at = "opened" /\ object = "alive"
      /\ Goto(t, "leaving") /\ UNCHANGED <<handle, object, mutex, live, fault>>
  BY DEF CreateEncoder, At, Thrown
<1>2. Holds(call[t]) BY <1>1 DEF Holds
<1>3. t = Owner BY <1>1 DEF Roles
<1>4. nvenc = "opened" BY <1>1, <1>3 DEF Lifetime
<1>5. wanted \in Config /\ wanted.bitrate # 0
  <2>1. call[t].rate \in Bitrates BY <1>1 DEF Roles, RatesOf
  <2> QED BY <2>1, RatesAreNat DEF Config
<1>6. \/ /\ nvenc' = "ready" /\ config' = wanted /\ driver' = wanted /\ initResult' = "ok"
      \/ /\ initResult' = "failed"
         /\ \/ UNCHANGED <<nvenc, config, driver>>
            \/ config' = wanted /\ UNCHANGED <<nvenc, driver>>
            \/ nvenc' = "half" /\ config' = wanted /\ driver' = wanted
  BY DEF CreateEncoder
<1> HIDE DEF wanted
<1>7. /\ call' \in [Threads -> CallInProgress \union {NoCall}]
      /\ \A u \in Threads : u # t => call'[u] = call[u]
      /\ call'[t].at = "leaving" /\ call'[t].op = call[t].op
      /\ Roles' /\ Exclusion' /\ Fresh'
  BY <1>0, <1>1, <1>2, GotoKeeps
<1>8. TypeOK' BY <1>1, <1>5, <1>6, <1>7 DEF TypeOK
<1>9. Lifetime' /\ Guarded' BY <1>1, <1>3, <1>4, <1>6, <1>7 DEF Lifetime, Guarded
<1>10. Mirror' BY <1>4, <1>5, <1>6 DEF Mirror
<1>11. OneEncoder' BY <1>1, <1>4, <1>6 DEF OneEncoder
<1>12. UsableFromInitToDestroy' BY <1>1 DEF UsableFromInitToDestroy
<1> QED BY <1>7, <1>8, <1>9, <1>10, <1>11, <1>12

LEMMA GetInitializeParamsKeeps ==
  ASSUME IInv, fault = "none", NEW t \in Threads, GetInitializeParams(t) PROVE IInv'
<1> USE DEF IInv
<1>0. Owner \in Threads BY DEF Threads
<1> DEFINE new == Adjusted(call[t].op, call[t].rate, config)
<1>1. /\ call[t].op \in Adjusting /\ call[t].at = "inside" /\ object = "alive" /\ nvenc # "null"
      /\ UNCHANGED <<handle, object, mutex, nvenc, live, config, driver, initResult>>
  BY DEF GetInitializeParams
<1>2. CASE config.framerate = 0 /\ fault' = "divide" /\ UNCHANGED call
  BY <1>1, <1>2, FaultKeeps
<1>3. CASE call' = [call EXCEPT ![t].at = "adjusted", ![t].copy = new] /\ UNCHANGED fault
  <2>1. new \in Config BY Calls, AdjustedType DEF TypeOK
  <2>2. call[t] \in CallInProgress BY <1>1, Calls
  <2> DEFINE going == [call[t] EXCEPT !.at = "adjusted", !.copy = new]
  <2>3. call' = [call EXCEPT ![t] = going] BY <1>3 DEF TypeOK
  <2> HIDE DEF new
  <2>4. going \in CallInProgress BY <2>1, <2>2 DEF CallInProgress, Places
  <2>5. /\ going.at = "adjusted" /\ going.copy = new /\ going.op = call[t].op
        /\ going.rate = call[t].rate
    BY <2>2 DEF CallInProgress
  <2> HIDE DEF going
  <2>6. call \in [Threads -> CallInProgress \union {NoCall}] BY DEF TypeOK
  <2>7. /\ call' \in [Threads -> CallInProgress \union {NoCall}]
        /\ \A u \in Threads : u # t => call'[u] = call[u]
        /\ call'[t] = going
    BY <2>3, <2>4, <2>6
  <2>8. TypeOK' BY <2>7, <1>1, <1>3 DEF TypeOK
  <2>9. call[t].op # "destroy" /\ call[t].op # "get_framesize" BY <1>1 DEF Adjusting
  <2>10. Roles' BY <2>5, <2>7, <1>1 DEF Roles
  <2>11. Exclusion' BY <2>5, <2>7, <2>9, <1>1 DEF Exclusion, Holds
  <2>12. Guarded' BY <1>0, <2>5, <2>7, <1>1 DEF Guarded
  <2>13. Lifetime' BY <1>0, <2>5, <2>7, <1>1 DEF Lifetime
  <2>14. Fresh' BY <2>5, <2>7, <1>1 DEF Fresh, new
  <2>15. Mirror' /\ OneEncoder' BY <1>1 DEF Mirror, OneEncoder
  <2>16. UsableFromInitToDestroy' BY <1>3 DEF UsableFromInitToDestroy
  <2> QED BY <2>8, <2>10, <2>11, <2>12, <2>13, <2>14, <2>15, <2>16
<1> QED BY <1>2, <1>3 DEF GetInitializeParams

LEMMA ReconfigureKeeps ==
  ASSUME IInv, fault = "none", NEW t \in Threads, Reconfigure(t) PROVE IInv'
<1> USE DEF IInv
<1>0. Owner \in Threads /\ "leaving" \in Places BY DEF Threads, Places
<1>1. /\ call[t].at = "adjusted" /\ object = "alive" /\ Goto(t, "leaving")
      /\ UNCHANGED <<handle, object, mutex, nvenc, live, initResult, fault>>
  BY DEF Reconfigure, Thrown
<1>2. Holds(call[t]) BY <1>1 DEF Holds
<1>3. call[t].op \in Adjusting /\ call[t].copy = Adjusted(call[t].op, call[t].rate, config)
  BY <1>1 DEF Roles, Fresh
<1>4. call[t].op \notin {"destroy", "init"} BY <1>3 DEF Adjusting
<1>5. /\ call' \in [Threads -> CallInProgress \union {NoCall}]
      /\ \A u \in Threads : u # t => call'[u] = call[u]
      /\ call'[t].at = "leaving" /\ call'[t].op = call[t].op
      /\ Roles' /\ Exclusion' /\ Fresh'
  BY <1>0, <1>1, <1>2, <1>4, GotoKeeps
<1>6. \/ nvenc \in {"half", "ready"} /\ driver' = call[t].copy /\ config' = call[t].copy
      \/ UNCHANGED <<config, driver>>
  BY DEF Reconfigure, KeepsOld
<1>7. TypeOK'
  <2>1. call[t].copy \in Config BY Calls
  <2> QED BY <2>1, <1>1, <1>5, <1>6 DEF TypeOK
<1>8. Lifetime' /\ Guarded' BY <1>0, <1>1, <1>4, <1>5 DEF Lifetime, Guarded
<1>9. Mirror'
  <2>1. CASE UNCHANGED <<config, driver>> BY <2>1, <1>1 DEF Mirror
  <2>2. CASE nvenc \in {"half", "ready"} /\ driver' = call[t].copy /\ config' = call[t].copy
    <3>1. config \in Config /\ config.bitrate # 0 BY <2>2 DEF TypeOK, Mirror
    <3>2. call[t].op = "set_bitrate" => call[t].rate # 0
      BY <1>1, RatesAreNat DEF Roles, RatesOf
    <3>3. call[t].copy.bitrate # 0 BY <3>1, <3>2, <1>3 DEF Adjusted, Config
    <3> QED BY <2>2, <3>3, <1>1 DEF Mirror
  <2> QED BY <2>1, <2>2, <1>6
<1>10. OneEncoder' BY <1>1 DEF OneEncoder
<1>11. UsableFromInitToDestroy' BY <1>1 DEF UsableFromInitToDestroy
<1> QED BY <1>5, <1>7, <1>8, <1>9, <1>10, <1>11

LEMMA EncodeKeeps ==
  ASSUME IInv, fault = "none", NEW t \in Threads, Encode(t) PROVE IInv'
<1>1. /\ call[t].op = "encode" /\ call[t].at = "inside"
      /\ UNCHANGED <<handle, object, mutex, nvenc, live, config, driver, initResult>>
  BY DEF Encode, At
<1>2. CASE nvenc # "ready" /\ fault' \in {"divide", "range"} /\ UNCHANGED call
  BY <1>1, <1>2, FaultKeeps
<1>3. CASE Goto(t, "leaving") /\ UNCHANGED fault BY <1>1, <1>3, LeavingKeeps
<1> QED BY <1>2, <1>3 DEF Encode

LEMMA GetFrameSizeKeeps ==
  ASSUME IInv, fault = "none", NEW t \in Threads, GetFrameSize(t) PROVE IInv'
<1> USE DEF IInv
<1>0. Owner \in Threads BY DEF Threads
<1>1. /\ call[t].op = "get_framesize" /\ call[t].at = "inside"
      /\ UNCHANGED <<handle, object, mutex, nvenc, live, config, driver, initResult>>
  BY DEF GetFrameSize, At
<1>2. CASE nvenc # "ready" /\ fault' \in {"null", "freed"} /\ UNCHANGED call
  BY <1>1, <1>2, FaultKeeps
<1>3. CASE call' = [call EXCEPT ![t] = NoCall] /\ UNCHANGED fault
  <2>1. /\ call' \in [Threads -> CallInProgress \union {NoCall}]
        /\ \A u \in Threads : u # t => call'[u] = call[u]
        /\ call'[t].at = "idle" /\ call'[t].op = "none"
        /\ Roles' /\ Exclusion' /\ Fresh'
    BY <1>1, <1>3, EndKeeps
  <2>2. TypeOK' BY <2>1, <1>1, <1>3 DEF TypeOK
  <2>3. Lifetime' /\ Guarded' BY <1>0, <2>1, <1>1 DEF Lifetime, Guarded
  <2>4. Mirror' /\ OneEncoder' BY <1>1 DEF Mirror, OneEncoder
  <2>5. UsableFromInitToDestroy' BY <1>3 DEF UsableFromInitToDestroy
  <2> QED BY <2>1, <2>2, <2>3, <2>4, <2>5
<1> QED BY <1>2, <1>3 DEF GetFrameSize

\* The steps of destroy.
LEMMA DestroyEncoderKeeps ==
  ASSUME IInv, fault = "none", NEW t \in Threads, DestroyEncoder(t) PROVE IInv'
<1> USE DEF IInv
<1>0. {"emptied", "unlocking"} \subseteq Places BY DEF Places
<1>1. /\ call[t].op = "destroy" /\ call[t].at = "inside"
      /\ UNCHANGED <<handle, object, mutex, config, initResult, fault>>
  BY DEF DestroyEncoder, At
<1>2. Holds(call[t]) BY <1>1 DEF Holds
<1>3. t = Owner BY <1>1 DEF Roles
<1>4. nvenc # "dangling" BY <1>1, <1>3 DEF Lifetime
<1>5. CASE nvenc = "null" /\ Goto(t, "unlocking") /\ UNCHANGED <<nvenc, live, driver>>
  <2>1. /\ call' \in [Threads -> CallInProgress \union {NoCall}]
        /\ \A u \in Threads : u # t => call'[u] = call[u]
        /\ call'[t].at = "unlocking" /\ call'[t].op = call[t].op
        /\ Roles' /\ Exclusion' /\ Fresh'
    BY <1>0, <1>1, <1>2, <1>5, GotoKeeps
  <2>2. TypeOK' BY <2>1, <1>1, <1>5 DEF TypeOK
  <2>3. Lifetime' /\ Guarded' BY <2>1, <1>1, <1>3, <1>5 DEF Lifetime, Guarded
  <2>4. Mirror' /\ OneEncoder' BY <1>1, <1>5 DEF Mirror, OneEncoder
  <2>5. UsableFromInitToDestroy' BY <1>1 DEF UsableFromInitToDestroy
  <2> QED BY <2>1, <2>2, <2>3, <2>4, <2>5
<1>6. CASE nvenc # "null" /\ live' = live - 1 /\ nvenc' = "dangling" /\ driver' = NoConfig
           /\ Goto(t, "emptied")
  <2>1. /\ call' \in [Threads -> CallInProgress \union {NoCall}]
        /\ \A u \in Threads : u # t => call'[u] = call[u]
        /\ call'[t].at = "emptied" /\ call'[t].op = call[t].op
        /\ Roles' /\ Exclusion' /\ Fresh'
    BY <1>0, <1>1, <1>2, <1>6, GotoKeeps
  <2>2. live = 1 BY <1>4, <1>6 DEF OneEncoder
  <2>3. NoConfig \in Config BY DEF NoConfig, Config
  <2>4. TypeOK' BY <2>1, <2>2, <2>3, <1>1, <1>6 DEF TypeOK
  <2>5. Lifetime' /\ Guarded' BY <2>1, <1>1, <1>3, <1>6 DEF Lifetime, Guarded
  <2>6. Mirror' /\ OneEncoder' BY <2>2, <1>6 DEF Mirror, OneEncoder
  <2>7. UsableFromInitToDestroy' BY <1>1 DEF UsableFromInitToDestroy
  <2> QED BY <2>1, <2>4, <2>5, <2>6, <2>7
<1> QED BY <1>5, <1>6 DEF DestroyEncoder

LEMMA NullEncoderKeeps ==
  ASSUME IInv, fault = "none", NEW t \in Threads, NullEncoder(t) PROVE IInv'
<1> USE DEF IInv
<1>0. "unlocking" \in Places BY DEF Places
<1>1. /\ call[t].op = "destroy" /\ call[t].at = "emptied" /\ Goto(t, "unlocking")
      /\ nvenc' = "null"
      /\ UNCHANGED <<handle, object, mutex, live, config, driver, initResult, fault>>
  BY DEF NullEncoder, At, Nulled
<1>2. Holds(call[t]) BY <1>1 DEF Holds
<1>3. t = Owner BY <1>1 DEF Roles
<1>4. nvenc = "dangling" BY <1>1, <1>3 DEF Lifetime
<1>5. /\ call' \in [Threads -> CallInProgress \union {NoCall}]
      /\ \A u \in Threads : u # t => call'[u] = call[u]
      /\ call'[t].at = "unlocking" /\ call'[t].op = call[t].op
      /\ Roles' /\ Exclusion' /\ Fresh'
  BY <1>0, <1>1, <1>2, GotoKeeps
<1>6. TypeOK' BY <1>1, <1>5 DEF TypeOK
<1>7. Lifetime' /\ Guarded'
  <2>1. \A u \in Threads : u # t => call[u].at # "adjusted"
    BY <1>2 DEF Exclusion, Holds
  <2> QED BY <2>1, <1>1, <1>3, <1>5 DEF Lifetime, Guarded
<1>8. Mirror' /\ OneEncoder' BY <1>1, <1>4 DEF Mirror, OneEncoder
<1>9. UsableFromInitToDestroy' BY <1>1 DEF UsableFromInitToDestroy
<1> QED BY <1>5, <1>6, <1>7, <1>8, <1>9

LEMMA UnlockToDeleteKeeps ==
  ASSUME IInv, fault = "none", NEW t \in Threads, UnlockToDelete(t) PROVE IInv'
<1> USE DEF IInv
<1>0. "deleting" \in Places BY DEF Places
<1>1. /\ call[t].op = "destroy" /\ call[t].at = "unlocking" /\ Goto(t, "deleting")
      /\ mutex' = Nobody
      /\ UNCHANGED <<handle, object, nvenc, live, config, driver, initResult, fault>>
  BY DEF UnlockToDelete, At
<1>2. Holds(call[t]) BY <1>1 DEF Holds
<1>3. t = Owner BY <1>1 DEF Roles
<1>4. /\ call' \in [Threads -> CallInProgress \union {NoCall}]
      /\ \A u \in Threads : u # t => call'[u] = call[u]
      /\ call'[t].at = "deleting" /\ call'[t].op = call[t].op
      /\ Roles' /\ Exclusion' /\ Fresh'
  BY <1>0, <1>1, <1>2, GotoKeeps
<1>5. TypeOK' BY <1>1, <1>4 DEF TypeOK
<1>6. Lifetime' /\ Guarded' BY <1>1, <1>3, <1>4 DEF Lifetime, Guarded
<1>7. Mirror' /\ OneEncoder' BY <1>1 DEF Mirror, OneEncoder
<1>8. UsableFromInitToDestroy' BY <1>1 DEF UsableFromInitToDestroy
<1> QED BY <1>4, <1>5, <1>6, <1>7, <1>8

LEMMA DeleteDataKeeps ==
  ASSUME IInv, fault = "none", NEW t \in Threads, DeleteData(t) PROVE IInv'
<1> USE DEF IInv
<1>0. "nulling" \in Places BY DEF Places
<1>1. /\ call[t].op = "destroy" /\ call[t].at = "deleting" /\ Goto(t, "nulling")
      /\ object' = "deleted"
      /\ UNCHANGED <<handle, mutex, nvenc, live, config, driver, initResult, fault>>
  BY DEF DeleteData, At
<1>2. t = Owner BY <1>1 DEF Roles
<1>3. /\ call' \in [Threads -> CallInProgress \union {NoCall}]
      /\ \A u \in Threads : u # t => call'[u] = call[u]
      /\ call'[t].at = "nulling" /\ call'[t].op = call[t].op
      /\ Roles' /\ Exclusion' /\ Fresh'
  BY <1>0, <1>1, GotoKeeps
<1>4. TypeOK' BY <1>1, <1>3 DEF TypeOK
<1>5. Lifetime' /\ Guarded' BY <1>1, <1>2, <1>3 DEF Lifetime, Guarded
<1>6. Mirror' /\ OneEncoder' BY <1>1 DEF Mirror, OneEncoder
<1>7. UsableFromInitToDestroy' BY <1>1 DEF UsableFromInitToDestroy
<1> QED BY <1>3, <1>4, <1>5, <1>6, <1>7

LEMMA NullHandleKeeps ==
  ASSUME IInv, fault = "none", NEW t \in Threads, NullHandle(t) PROVE IInv'
<1> USE DEF IInv
<1>1. /\ call[t].op = "destroy" /\ call[t].at = "nulling" /\ handle' = "null"
      /\ call' = [call EXCEPT ![t] = NoCall]
      /\ UNCHANGED <<object, mutex, nvenc, live, config, driver, initResult, fault>>
  BY DEF NullHandle, At
<1>2. t = Owner BY <1>1 DEF Roles
<1>3. object = "deleted" BY <1>1, <1>2 DEF Lifetime
<1>4. /\ call' \in [Threads -> CallInProgress \union {NoCall}]
      /\ \A u \in Threads : u # t => call'[u] = call[u]
      /\ call'[t].at = "idle" /\ call'[t].op = "none"
      /\ Roles' /\ Exclusion' /\ Fresh'
  BY <1>1, EndKeeps
<1>5. TypeOK' BY <1>1, <1>4 DEF TypeOK
<1>6. Lifetime' /\ Guarded' BY <1>1, <1>2, <1>3, <1>4 DEF Lifetime, Guarded
<1>7. Mirror' /\ OneEncoder' BY <1>1 DEF Mirror, OneEncoder
<1>8. UsableFromInitToDestroy' BY <1>1 DEF UsableFromInitToDestroy
<1> QED BY <1>4, <1>5, <1>6, <1>7, <1>8

LEMMA StepKeeps ==
  ASSUME IInv, fault = "none", NEW t \in Threads, Step(t) PROVE IInv'
<1>1. CASE Lock(t) BY <1>1, LockKeeps
<1>2. CASE Return(t) BY <1>2, ReturnKeeps
<1>3. CASE UseFreed(t) BY <1>3, UseFreedKeeps
<1>4. CASE InitRefused(t) BY <1>4, LeavingKeeps DEF InitRefused, At
<1>5. CASE OpenSession(t) BY <1>5, OpenSessionKeeps
<1>6. CASE CreateEncoder(t) BY <1>6, CreateEncoderKeeps
<1>7. CASE NothingToAdjust(t) BY <1>7, LeavingKeeps DEF NothingToAdjust, Adjusting
<1>8. CASE GetInitializeParams(t) BY <1>8, GetInitializeParamsKeeps
<1>9. CASE Reconfigure(t) BY <1>9, ReconfigureKeeps
<1>10. CASE Encode(t) BY <1>10, EncodeKeeps
<1>11. CASE GetSequenceParams(t) BY <1>11, LeavingKeeps DEF GetSequenceParams, At
<1>12. CASE GetFrameSize(t) BY <1>12, GetFrameSizeKeeps
<1>13. CASE DestroyEncoder(t) BY <1>13, DestroyEncoderKeeps
<1>14. CASE NullEncoder(t) BY <1>14, NullEncoderKeeps
<1>15. CASE UnlockToDelete(t) BY <1>15, UnlockToDeleteKeeps
<1>16. CASE DeleteData(t) BY <1>16, DeleteDataKeeps
<1>17. CASE NullHandle(t) BY <1>17, NullHandleKeeps
<1> QED BY <1>1, <1>2, <1>3, <1>4, <1>5, <1>6, <1>7, <1>8, <1>9, <1>10, <1>11, <1>12,
           <1>13, <1>14, <1>15, <1>16, <1>17 DEF Step, CallEnds

LEMMA NextKeeps == IInv /\ [Next]_vars => IInv'
<1> SUFFICES ASSUME IInv, [Next]_vars PROVE IInv' OBVIOUS
<1>1. CASE UNCHANGED vars
  BY <1>1 DEF vars, IInv, TypeOK, Roles, Exclusion, Lifetime, Guarded, Mirror, Fresh,
              OneEncoder, UsableFromInitToDestroy
<1>2. CASE Next
  <2>1. CASE Create BY <2>1, <1>2, CreateKeeps DEF Next
  <2>2. CASE OwnerCalls
    <3>1. PICK op \in Ops : \E r \in RatesOf(op) : Call(Owner, op, r)
      BY <2>2 DEF OwnerCalls, Ops
    <3>2. PICK r \in RatesOf(op) : Call(Owner, op, r) BY <3>1
    <3> QED BY <3>2, CallKeeps DEF Threads
  <2>3. ASSUME NEW t \in Controllers, ControllerCalls(t) PROVE IInv'
    <3>1. PICK op \in Adjusting \union Using : \E r \in RatesOf(op) : Call(t, op, r)
      BY <2>3 DEF ControllerCalls
    <3>2. PICK r \in RatesOf(op) : Call(t, op, r) BY <3>1
    <3>3. op \in Ops /\ op \notin {"init", "destroy"} BY DEF Ops, Adjusting, Using
    <3> QED BY <3>2, <3>3, CallKeeps DEF Threads
  <2>4. ASSUME NEW t \in Threads, Step(t) PROVE IInv'
    BY <2>4, <1>2, StepKeeps DEF Next
  <2> QED BY <1>2, <2>1, <2>2, <2>3, <2>4 DEF Next
<1> QED BY <1>1, <1>2

\* What calls of several threads leave behind is in every state what IInv says: who
\* holds the mutex, what is left of the encoder, and what the driver uses
\* (c_encoder_nv_impl.cpp:57-308).
THEOREM Invariance == Spec => []IInv
<1> QED BY InitIInv, NextKeeps, PTL DEF Spec

-----------------------------------------------------------------------------
(* What follows. *)

\* Every variable keeps its type, whatever the threads do.
THEOREM TypeCorrect == Spec => []TypeOK
<1>1. IInv => TypeOK BY DEF IInv
<1> QED BY <1>1, Invariance, PTL

\* A second init never makes a second encoder, and none is left behind by
\* destroy (c_encoder_nv_impl.cpp:65-69, 88-91).
THEOREM OneEncoderTheorem == Spec => []OneEncoder
<1>1. IInv => OneEncoder BY DEF IInv
<1> QED BY <1>1, Invariance, PTL

\* From a successful init to destroy, no call of any number of threads crashes
\* (c_encoder_nv_impl.cpp:156-308).
THEOREM UsableTheorem == Spec => []UsableFromInitToDestroy
<1>1. IInv => UsableFromInitToDestroy BY DEF IInv
<1> QED BY <1>1, Invariance, PTL

\* Destroy takes the encoder away only between the calls of other threads
\* (c_encoder_nv_impl.cpp:63-74, 88-107, 163-240).
LEMMA LiveInside == IInv => UsesLiveEncoder
<1> SUFFICES ASSUME IInv, NEW t \in Threads
             PROVE  /\ call[t].at \in {"opened", "adjusted"} =>
                         object = "alive" /\ nvenc \in {"opened", "half", "ready"}
                    /\ call[t].at = "inside" /\ call[t].op # "get_framesize" => nvenc # "dangling"
  BY DEF UsesLiveEncoder
<1> USE DEF IInv
<1>0. Owner \in Threads BY DEF Threads
<1>1. nvenc = "dangling" => call[Owner].at = "emptied" /\ mutex = Owner
  BY <1>0 DEF Lifetime, Exclusion, Holds
<1>2. CASE call[t].at = "opened"
  <2>1. t = Owner BY <1>2 DEF Roles
  <2>2. nvenc = "opened" BY <1>2, <2>1 DEF Lifetime
  <2> QED BY <1>2, <2>2 DEF Guarded, TypeOK
<1>3. CASE call[t].at = "adjusted"
  <2>1. nvenc # "null" BY <1>3 DEF Guarded
  <2>2. nvenc # "dangling" BY <1>1, <1>3 DEF Exclusion, Holds
  <2> QED BY <1>3, <2>1, <2>2 DEF Guarded, TypeOK
<1>4. CASE call[t].at = "inside" /\ call[t].op # "get_framesize"
  BY <1>1, <1>4 DEF Exclusion, Holds
<1> QED BY <1>2, <1>3, <1>4

\* For any number of threads no call that locks the mutex meets an encoder that
\* destroy has deleted (c_encoder_nv_impl.cpp:63-74, 88-107, 163-240).
THEOREM LiveEncoderTheorem == Spec => []UsesLiveEncoder
<1> QED BY LiveInside, Invariance, PTL

\* Every step changes one setting, builds or destroys the encoder, or leaves the
\* driver alone (c_encoder_nv_impl.cpp:163-185, 198-213, 226-240).
LEMMA SettingsStep ==
  ASSUME IInv, [Next]_vars PROVE [Rates!Next]_driver
<1> SUFFICES ASSUME driver' # driver PROVE Rates!Next OBVIOUS
<1> USE DEF IInv
<1>1. Next BY DEF vars
<1>2. PICK t \in Threads : Step(t)
  BY <1>1 DEF Next, Create, OwnerCalls, ControllerCalls, Call
<1>3. CreateEncoder(t) \/ Reconfigure(t) \/ DestroyEncoder(t)
  BY <1>2 DEF Step, CallEnds, Lock, Return, UseFreed, InitRefused, OpenSession, NothingToAdjust,
              GetInitializeParams, Encode, GetSequenceParams, GetFrameSize, NullEncoder,
              UnlockToDelete, DeleteData, NullHandle
<1>4. CASE CreateEncoder(t)
  <2>1. /\ call[t].op = "init" /\ call[t].at = "opened"
        /\ driver' = [bitrate |-> call[t].rate, framerate |-> DefaultFrameRate]
    BY <1>4 DEF CreateEncoder, At
  <2>2. t = Owner /\ call[t].rate \in Bitrates BY <2>1 DEF Roles, RatesOf
  <2>3. driver = NoConfig BY <2>1, <2>2 DEF Lifetime, Mirror
  <2> QED BY <2>1, <2>2, <2>3 DEF Rates!Next, Rates!Build
<1>5. CASE Reconfigure(t)
  <2>1. /\ call[t].at = "adjusted" /\ nvenc \in {"half", "ready"} /\ driver' = call[t].copy
    BY <1>5 DEF Reconfigure
  <2>2. /\ call[t].op \in Adjusting /\ call[t].rate \in RatesOf(call[t].op)
        /\ call[t].copy = Adjusted(call[t].op, call[t].rate, config)
    BY <2>1 DEF Roles, Fresh
  <2>3. config = driver /\ driver.bitrate # 0 BY <2>1 DEF Mirror
  <2>4. driver # NoConfig BY <2>3 DEF NoConfig
  <2>5. CASE call[t].op = "set_bitrate"
    <3>1. call[t].rate \in Bitrates BY <2>2, <2>5 DEF RatesOf
    <3>2. driver' = [driver EXCEPT !.bitrate = call[t].rate]
      BY <2>1, <2>2, <2>3, <2>5 DEF Adjusted
    <3> QED BY <3>1, <3>2, <2>4 DEF Rates!Next, Rates!SetBitrate
  <2>6. CASE call[t].op = "set_framerate"
    <3>1. call[t].rate \in FrameRates BY <2>2, <2>6 DEF RatesOf
    <3>2. driver' = [driver EXCEPT !.framerate = call[t].rate]
      BY <2>1, <2>2, <2>3, <2>6 DEF Adjusted
    <3> QED BY <3>1, <3>2, <2>4 DEF Rates!Next, Rates!SetFrameRate
  <2>7. CASE call[t].op = "request_idr" BY <2>1, <2>2, <2>3, <2>7 DEF Adjusted
  <2> QED BY <2>2, <2>5, <2>6, <2>7 DEF Adjusting
<1>6. CASE DestroyEncoder(t)
  <2>1. driver' = NoConfig BY <1>6 DEF DestroyEncoder
  <2> QED BY <2>1 DEF Rates!Next, Rates!Destroy
<1> QED BY <1>3, <1>4, <1>5, <1>6

\* The table implements RateSettings: concurrent adjustments lose no update.
THEOREM SettingsTheorem == Spec => OneSettingAtATime
<1>1. Init => Rates!Init BY DEF Init, Rates!Init
<1>2. IInv /\ [Next]_vars => [Rates!Next]_driver BY SettingsStep
<1> QED BY <1>1, <1>2, Invariance, PTL DEF Spec, OneSettingAtATime, Rates!Spec

-----------------------------------------------------------------------------
(* The mutex.  MutexReleased needs fairness, which stays with TLC.  What     *)
(* it rests on is proved here: whoever holds the mutex is inside a call that *)
(* gives it back, and has at most four steps to go, which only it can take.  *)

\* Steps a call has left until it gives the mutex back.
StepsLeft(c) == CASE c.at = "inside" -> 4
                  [] c.at \in {"opened", "adjusted", "emptied"} -> 3
                  [] c.at = "unlocking" -> 2
                  [] c.at = "leaving" -> 1
                  [] OTHER -> 0

\* The holder of the mutex is inside a call that locks it: none ends without
\* giving it back.  (get_framesize is the call that does not lock it.)
HeldInside == /\ \A t \in Threads : mutex = t => Holds(call[t])
              /\ \A t \in Threads : call[t].op = "get_framesize" => call[t].at = "inside"

\* Each step of the holder gives the mutex back, ends the process or brings the
\* call nearer to its end; no step of another thread touches the one or the other.
GivenBack ==
  \A t \in Threads : mutex = t =>
    /\ Step(t) => \/ mutex' = Nobody
                  \/ fault' # "none"
                  \/ mutex' = t /\ StepsLeft(call'[t]) < StepsLeft(call[t])
    /\ ~Step(t) => mutex' = t /\ call'[t] = call[t]

LEMMA NotHeld == ~Holds(NoCall) /\ NoCall.op = "none"
BY DEF Holds, NoCall

\* A call goes on without giving the mutex back.
LEMMA GotoNearer ==
  ASSUME TypeOK, NEW t \in Threads, NEW s \in Places, call[t].at # "idle",
         call[t].op # "get_framesize", Goto(t, s), UNCHANGED mutex,
         \/ call[t].at = "inside" /\ s \in {"opened", "adjusted", "emptied", "unlocking", "leaving"}
         \/ call[t].at \in {"opened", "adjusted"} /\ s = "leaving"
         \/ call[t].at = "emptied" /\ s = "unlocking"
  PROVE  /\ \A u \in Threads : u # t => call'[u] = call[u]
         /\ Holds(call'[t]) /\ call'[t].op # "get_framesize"
         /\ StepsLeft(call'[t]) < StepsLeft(call[t])
<1>1. /\ \A u \in Threads : u # t => call'[u] = call[u]
      /\ call'[t].at = s /\ call'[t].op = call[t].op
  BY Moves
<1> QED BY <1>1 DEF Holds, StepsLeft

\* What a step within a call can do to the mutex.
LEMMA StepOfCall ==
  ASSUME IInv, HeldInside, NEW t \in Threads, Step(t)
  PROVE  /\ \A u \in Threads : u # t => call'[u] = call[u]
         /\ call'[t].op = "get_framesize" => call'[t].at = "inside"
         /\ \/ mutex = Nobody /\ mutex' = t /\ Holds(call'[t])
            \/ mutex = t /\ mutex' = Nobody
            \/ fault' # "none" /\ UNCHANGED <<mutex, call>>
            \/ /\ UNCHANGED mutex /\ Holds(call'[t])
               /\ StepsLeft(call'[t]) < StepsLeft(call[t])
            \/ UNCHANGED mutex /\ ~Holds(call[t])
<1> USE DEF IInv
<1>1. CASE Lock(t)
  <2>1. call[t].at = "locking" /\ mutex = Nobody /\ mutex' = t /\ Goto(t, "inside")
    BY <1>1 DEF Lock, LockIsFree
  <2>2. /\ \A u \in Threads : u # t => call'[u] = call[u]
        /\ call'[t].at = "inside" /\ call'[t].op = call[t].op
    BY <2>1, Moves DEF Places
  <2>3. call[t].op # "get_framesize" BY <2>1 DEF HeldInside
  <2> QED BY <2>1, <2>2, <2>3 DEF Holds
<1>2. CASE Return(t)
  <2>1. call[t].at = "leaving" /\ mutex' = Nobody /\ call' = [call EXCEPT ![t] = NoCall]
    BY <1>2 DEF Return
  <2>2. mutex = t BY <2>1 DEF Exclusion, Holds
  <2> QED BY <2>1, <2>2, Ends
<1>3. CASE UseFreed(t) BY <1>3 DEF UseFreed, HeldInside
<1>4. CASE InitRefused(t) BY <1>4, GotoNearer DEF InitRefused, At, Places
<1>5. CASE OpenSession(t) BY <1>5, GotoNearer DEF OpenSession, At, Places, Thrown
<1>6. CASE CreateEncoder(t) BY <1>6, GotoNearer DEF CreateEncoder, At, Places, Thrown
<1>7. CASE NothingToAdjust(t)
  BY <1>7, GotoNearer DEF NothingToAdjust, At, Places, Adjusting
<1>8. CASE GetInitializeParams(t)
  <2> DEFINE new == Adjusted(call[t].op, call[t].rate, config)
             going == [call[t] EXCEPT !.at = "adjusted", !.copy = new]
  <2>1. call[t].op \in Adjusting /\ call[t].at = "inside" /\ UNCHANGED mutex
    BY <1>8 DEF GetInitializeParams
  <2>2. \/ fault' = "divide" /\ UNCHANGED call
        \/ call' = [call EXCEPT ![t].at = "adjusted", ![t].copy = new]
    BY <1>8 DEF GetInitializeParams
  <2>3. CASE fault' = "divide" /\ UNCHANGED call BY <2>1, <2>3 DEF HeldInside
  <2>4. CASE call' = [call EXCEPT ![t].at = "adjusted", ![t].copy = new]
    <3>1. call[t] \in CallInProgress BY <2>1, Calls
    <3>2. call' = [call EXCEPT ![t] = going] BY <2>4 DEF TypeOK
    <3> HIDE DEF new
    <3>3. going.at = "adjusted" /\ going.op = call[t].op BY <3>1 DEF CallInProgress
    <3> HIDE DEF going
    <3>4. call'[t] = going /\ \A u \in Threads : u # t => call'[u] = call[u]
      BY <3>2 DEF TypeOK
    <3> QED BY <2>1, <3>3, <3>4 DEF Holds, StepsLeft, Adjusting
  <2> QED BY <2>2, <2>3, <2>4
<1>9. CASE Reconfigure(t)
  <2>1. call[t].at = "adjusted" /\ call[t].op # "get_framesize" /\ Goto(t, "leaving") /\ UNCHANGED mutex
    BY <1>9 DEF Reconfigure, Thrown, HeldInside
  <2> QED BY <2>1, GotoNearer DEF Places
<1>10. CASE Encode(t)
  <2>1. call[t].at = "inside" /\ call[t].op = "encode" /\ UNCHANGED mutex BY <1>10 DEF Encode, At
  <2>2. CASE fault' # "none" /\ UNCHANGED call BY <2>1, <2>2 DEF HeldInside
  <2>3. CASE Goto(t, "leaving") BY <2>1, <2>3, GotoNearer DEF Places
  <2> QED BY <1>10, <2>2, <2>3 DEF Encode
<1>11. CASE GetSequenceParams(t) BY <1>11, GotoNearer DEF GetSequenceParams, At, Places
<1>12. CASE GetFrameSize(t)
  <2>1. /\ call[t].at = "inside" /\ call[t].op = "get_framesize" /\ UNCHANGED mutex
    BY <1>12 DEF GetFrameSize, At
  <2>2. ~Holds(call[t]) BY <2>1 DEF Holds
  <2>3. CASE UNCHANGED call BY <2>1, <2>2, <2>3
  <2>4. CASE call' = [call EXCEPT ![t] = NoCall] BY <2>1, <2>2, <2>4, Ends
  <2> QED BY <1>12, <2>3, <2>4 DEF GetFrameSize
<1>13. CASE DestroyEncoder(t)
  <2>1. /\ call[t].at = "inside" /\ call[t].op = "destroy" /\ UNCHANGED mutex
        /\ Goto(t, "unlocking") \/ Goto(t, "emptied")
    BY <1>13 DEF DestroyEncoder, At
  <2> QED BY <2>1, GotoNearer DEF Places
<1>14. CASE NullEncoder(t) BY <1>14, GotoNearer DEF NullEncoder, At, Places
<1>15. CASE UnlockToDelete(t)
  <2>1. /\ call[t].at = "unlocking" /\ call[t].op = "destroy" /\ mutex' = Nobody
        /\ Goto(t, "deleting")
    BY <1>15 DEF UnlockToDelete, At
  <2>2. mutex = t BY <2>1 DEF Exclusion, Holds
  <2> QED BY <2>1, <2>2, Moves DEF Places
<1>16. CASE DeleteData(t)
  <2>1. /\ call[t].at = "deleting" /\ call[t].op = "destroy" /\ UNCHANGED mutex
        /\ Goto(t, "nulling")
    BY <1>16 DEF DeleteData, At
  <2> QED BY <2>1, Moves DEF Places, Holds
<1>17. CASE NullHandle(t)
  <2>1. /\ call[t].at = "nulling" /\ UNCHANGED mutex /\ call' = [call EXCEPT ![t] = NoCall]
    BY <1>17 DEF NullHandle, At
  <2> QED BY <2>1, Ends DEF Holds
<1> QED BY <1>1, <1>2, <1>3, <1>4, <1>5, <1>6, <1>7, <1>8, <1>9, <1>10, <1>11, <1>12,
           <1>13, <1>14, <1>15, <1>16, <1>17 DEF Step, CallEnds

\* What the start of a call can.
LEMMA StartOfCall ==
  ASSUME IInv, HeldInside, [Next]_vars, \A t \in Threads : ~Step(t)
  PROVE  /\ UNCHANGED mutex
         /\ \A t \in Threads : mutex = t => call'[t] = call[t]
         /\ \A t \in Threads : call'[t].op = "get_framesize" => call'[t].at = "inside"
<1> USE DEF IInv
<1>1. CASE UNCHANGED <<mutex, call>> BY <1>1 DEF HeldInside
<1>2. ASSUME NEW t \in Threads, NEW op \in Ops, NEW r \in RatesOf(op), Call(t, op, r)
      PROVE  /\ UNCHANGED mutex
             /\ \A u \in Threads : mutex = u => call'[u] = call[u]
             /\ \A u \in Threads : call'[u].op = "get_framesize" => call'[u].at = "inside"
  <2>1. call[t].at = "idle" /\ UNCHANGED mutex BY <1>2 DEF Call
  <2>2. ~Holds(call[t]) BY <2>1, Calls, NotHeld
  <2>3. /\ \A u \in Threads : u # t => call'[u] = call[u]
        /\ call'[t].op = op
        /\ call'[t].at = IF op = "get_framesize" THEN "inside" ELSE "locking"
    BY <1>2, Begins
  <2> QED BY <2>1, <2>2, <2>3 DEF HeldInside
<1>3. CASE Create BY <1>1, <1>3 DEF Create
<1>4. CASE OwnerCalls
  <2>1. PICK op \in Ops : \E r \in RatesOf(op) : Call(Owner, op, r) BY <1>4 DEF OwnerCalls, Ops
  <2> QED BY <2>1, <1>2 DEF Threads
<1>5. ASSUME NEW t \in Controllers, ControllerCalls(t)
      PROVE  \E op \in Ops : \E r \in RatesOf(op) : Call(t, op, r)
  BY <1>5 DEF ControllerCalls, Ops
<1>6. CASE UNCHANGED vars BY <1>1, <1>6 DEF vars
<1>7. Create \/ OwnerCalls \/ (\E t \in Controllers : ControllerCalls(t)) \/ UNCHANGED vars
  BY DEF Next
<1>8. Controllers \subseteq Threads BY DEF Threads
<1> QED BY <1>2, <1>3, <1>4, <1>5, <1>6, <1>7, <1>8

LEMMA MutexStep ==
  ASSUME IInv, HeldInside, [Next]_vars PROVE HeldInside' /\ GivenBack
<1>0. Nobody \notin Threads BY ThreadsDiffer DEF Threads
<1>1. CASE \A t \in Threads : ~Step(t)
  <2>1. /\ UNCHANGED mutex
        /\ \A t \in Threads : mutex = t => call'[t] = call[t]
        /\ \A t \in Threads : call'[t].op = "get_framesize" => call'[t].at = "inside"
    BY <1>1, StartOfCall
  <2> QED BY <1>1, <2>1 DEF HeldInside, GivenBack
<1>2. ASSUME NEW t \in Threads, Step(t) PROVE HeldInside' /\ GivenBack
  <2>1. /\ \A u \in Threads : u # t => call'[u] = call[u]
        /\ call'[t].op = "get_framesize" => call'[t].at = "inside"
        /\ \/ mutex = Nobody /\ mutex' = t /\ Holds(call'[t])
           \/ mutex = t /\ mutex' = Nobody
           \/ fault' # "none" /\ UNCHANGED <<mutex, call>>
           \/ /\ UNCHANGED mutex /\ Holds(call'[t])
              /\ StepsLeft(call'[t]) < StepsLeft(call[t])
           \/ UNCHANGED mutex /\ ~Holds(call[t])
    BY <1>2, StepOfCall
  <2> HIDE DEF Holds, StepsLeft
  <2>2. HeldInside' BY <1>0, <2>1 DEF HeldInside
  <2>3. GivenBack
    <3> SUFFICES ASSUME NEW u \in Threads, mutex = u
                 PROVE  /\ Step(u) => \/ mutex' = Nobody
                                      \/ fault' # "none"
                                      \/ mutex' = u /\ StepsLeft(call'[u]) < StepsLeft(call[u])
                        /\ ~Step(u) => mutex' = u /\ call'[u] = call[u]
      BY DEF GivenBack
    <3>1. Holds(call[u]) BY DEF HeldInside
    <3>2. ASSUME Step(u)
          PROVE  \/ mutex' = Nobody \/ fault' # "none"
                 \/ mutex' = u /\ StepsLeft(call'[u]) < StepsLeft(call[u])
      <4>1. \/ mutex = Nobody
            \/ mutex' = Nobody \/ fault' # "none"
            \/ UNCHANGED mutex /\ StepsLeft(call'[u]) < StepsLeft(call[u])
            \/ ~Holds(call[u])
        BY <3>2, StepOfCall
      <4> QED BY <1>0, <3>1, <4>1
    <3>3. ASSUME ~Step(u) PROVE mutex' = u /\ call'[u] = call[u]
      <4>1. u # t BY <1>2, <3>3
      <4> QED BY <1>0, <2>1, <4>1
    <3> QED BY <3>2, <3>3
  <2> QED BY <2>2, <2>3
<1> QED BY <1>1, <1>2

\* Nobody keeps the mutex: none of the ways out of a call, an exception included,
\* leaves it locked, and it is back after four steps of its holder
\* (c_encoder_nv_impl.cpp:63-74, 88, 163, 198, 226, 259, 298).
THEOREM MutexTheorem == Spec => []HeldInside /\ [][GivenBack]_vars
<1>1. Init => HeldInside
  <2> SUFFICES ASSUME Init PROVE HeldInside OBVIOUS
  <2>1. Nobody \notin Threads BY ThreadsDiffer DEF Threads
  <2>2. \A t \in Threads : call[t] = NoCall BY DEF Init
  <2> QED BY <2>1, <2>2, NotHeld DEF Init, HeldInside
<1>2. IInv /\ HeldInside /\ [Next]_vars => HeldInside' BY MutexStep
<1>3. IInv /\ HeldInside /\ [Next]_vars => [GivenBack]_vars BY MutexStep
<1> QED BY <1>1, <1>2, <1>3, Invariance, PTL DEF Spec
=============================================================================
