------------------------------ MODULE CEncoder ------------------------------
(***************************************************************************)
(* The table of C functions around NvEncoder (c_encoder_nv_impl.cpp): one  *)
(* nvenc_data from create to destroy.  One thread owns it and follows the  *)
(* test programs: create, init, whose result it does not look at, then     *)
(* any calls, and destroy.  Other threads adjust and use the encoder in    *)
(* between, which is what the mutex is there for.  Destroy sets the        *)
(* owner's handle to null; all other functions take it by value, and the   *)
(* other threads keep copies of their own, which nothing takes back.       *)
(*                                                                         *)
(* A call is split where another thread can come in between or where it    *)
(* can fail.  What encode does with the ring of frames is the subject of   *)
(* NvEncoder; here it matters whether there is a ring.                     *)
(***************************************************************************)
EXTENDS Naturals

CONSTANTS Owner,             \* the thread that creates, initialises, destroys
          Controllers,       \* the other threads
          Nobody,            \* the mutex is free
          Bitrates, FrameRates,
          DefaultFrameRate   \* frameRateNum of a new encoder, 30

ASSUME ThreadsDiffer == Owner \notin Controllers /\ Nobody \notin Controllers \union {Owner}
ASSUME RatesAreNat == /\ Bitrates \subseteq Nat \ {0} /\ FrameRates \subseteq Nat
                      /\ DefaultFrameRate \in Nat \ {0}

Threads == Controllers \union {Owner}

\* m_initializeParams and m_encodeConfig, as far as calls change them; all zero
\* until CreateEncoder fills them in.
Config == [bitrate : Nat, framerate : Nat]
NoConfig == [bitrate |-> 0, framerate |-> 0]

Adjusting == {"set_bitrate", "set_framerate", "request_idr"}
Using == {"get_framesize", "get_sequence_params", "encode"}

RatesOf(op) == CASE op \in {"init", "set_bitrate"} -> Bitrates
                 [] op = "set_framerate" -> FrameRates
                 [] OTHER -> {0}

VARIABLES handle,      \* the void* of the owner: "null" or "data"
          object,      \* the nvenc_data: "none", "alive", "deleted"
          mutex,       \* nvenc_data::mutex, its holder
          nvenc,       \* nvenc_data::nvenc: "null", "opened" (a session without
                       \*   an encoder), "half" (CreateEncoder broke off),
                       \*   "ready", "dangling"
          live,        \* NvEncoderCuda objects that exist
          config,      \* what the encoder believes its parameters to be
          driver,      \* NVENC: the parameters of the session
          call,        \* per thread, the call in progress
          initResult,  \* what init has come to: "none", "ok", "failed"
          fault        \* what ended the process, if anything did

vars == <<handle, object, mutex, nvenc, live, config, driver, call, initResult, fault>>

\* copy: the parameters an adjusting call is about to send.
NoCall == [op |-> "none", rate |-> 0, at |-> "idle", copy |-> NoConfig]

Init == /\ handle = "null" /\ object = "none" /\ mutex = Nobody
        /\ nvenc = "null" /\ live = 0
        /\ config = NoConfig /\ driver = NoConfig
        /\ call = [t \in Threads |-> NoCall]
        /\ initResult = "none" /\ fault = "none"

At(t, op, step) == call[t].op = op /\ call[t].at = step
Goto(t, step) == call' = [call EXCEPT ![t].at = step]

-----------------------------------------------------------------------------
(* Creation, and how a call starts and ends. *)

Create == /\ object = "none" /\ object' = "alive" /\ handle' = "data"
          /\ UNCHANGED <<mutex, nvenc, live, config, driver, call, initResult, fault>>

\* A handle that is not null.  Those functions but destroy and get_framesize turn
\* null away, which needs no step; these two are never given it here.
HasHandle(t) == IF t = Owner THEN handle = "data" ELSE object # "none"

\* Every function but get_framesize locks the mutex first.
Call(t, op, r) ==
  /\ call[t].at = "idle" /\ HasHandle(t)
  /\ call' = [call EXCEPT ![t] =
                [op |-> op, rate |-> r, copy |-> NoConfig,
                 at |-> IF op = "get_framesize" THEN "inside" ELSE "locking"]]
  /\ UNCHANGED <<handle, object, mutex, nvenc, live, config, driver, initResult, fault>>

\* The owner initialises first; it may try again later.
OwnerCalls == /\ object # "none"
              /\ \E op \in Adjusting \union Using \union {"init", "destroy"} :
                   /\ initResult = "none" => op = "init"
                   /\ \E r \in RatesOf(op) : Call(Owner, op, r)
ControllerCalls(t) == \E op \in Adjusting \union Using : \E r \in RatesOf(op) : Call(t, op, r)

\* (First: the mutex left out.)
Unlocked == TRUE
LockIsFree == mutex = Nobody

Lock(t) == /\ call[t].at = "locking" /\ object = "alive" /\ LockIsFree
           /\ mutex' = t /\ Goto(t, "inside")
           /\ UNCHANGED <<handle, object, nvenc, live, config, driver, initResult, fault>>

\* The end of a lock_guard's scope, also when an exception leaves it.
Return(t) == /\ call[t].at = "leaving" /\ object = "alive"
             /\ mutex' = Nobody /\ call' = [call EXCEPT ![t] = NoCall]
             /\ UNCHANGED <<handle, object, nvenc, live, config, driver, initResult, fault>>

\* Where an exception takes a call.  (First: without the lock_guard.)
LockKept == "idle"
Thrown == "leaving"

\* A call that is under way when the object is deleted, or that begins after it
\* with a copy of the handle, goes on with freed memory.
UseFreed(t) == /\ object = "deleted" /\ call[t].at # "idle" /\ call[t].op # "destroy"
               /\ fault' = "freed"
               /\ UNCHANGED <<handle, object, mutex, nvenc, live, config, driver, call, initResult>>

-----------------------------------------------------------------------------
(* init. *)

\* (First: a second init is not turned away.)
AnyTime == TRUE
NotYetInitialised == nvenc = "null"

InitRefused(t) == /\ At(t, "init", "inside") /\ object = "alive" /\ ~NotYetInitialised
                  /\ Goto(t, "leaving")
                  /\ UNCHANGED <<handle, object, mutex, nvenc, live, config, driver, initResult, fault>>

\* new NvEncoderCuda opens a session, or throws.
OpenSession(t) ==
  /\ At(t, "init", "inside") /\ object = "alive" /\ NotYetInitialised
  /\ \/ /\ nvenc' = "opened" /\ live' = live + 1 /\ config' = NoConfig
        /\ Goto(t, "opened") /\ UNCHANGED initResult
     \/ /\ initResult' = "failed" /\ Goto(t, Thrown)
        /\ UNCHANGED <<nvenc, live, config>>
  /\ UNCHANGED <<handle, object, mutex, driver, fault>>

\* Frame rate and codec: init takes only the bitrate over; the codec may turn
\* out to be none of the two that are supported.  CreateEncoder can throw before
\* it has stored the parameters, before the driver took them, or afterwards.
CreateEncoder(t) ==
  LET wanted == [bitrate |-> call[t].rate, framerate |-> DefaultFrameRate]
  IN /\ At(t, "init", "opened") /\ object = "alive"
     /\ \/ /\ nvenc' = "ready" /\ config' = wanted /\ driver' = wanted
           /\ initResult' = "ok" /\ Goto(t, "leaving")
        \/ /\ initResult' = "failed" /\ Goto(t, Thrown)
           /\ \/ UNCHANGED <<nvenc, config, driver>>
              \/ config' = wanted /\ UNCHANGED <<nvenc, driver>>
              \/ nvenc' = "half" /\ config' = wanted /\ driver' = wanted
     /\ UNCHANGED <<handle, object, mutex, live, fault>>

-----------------------------------------------------------------------------
(* set_bitrate, set_framerate and request_idr: the parameters are read, one *)
(* is changed, and all are sent to the driver.                              *)

Adjusted(op, r, c) == CASE op = "set_bitrate" -> [c EXCEPT !.bitrate = r]
                        [] op = "set_framerate" -> [c EXCEPT !.framerate = r]
                        [] OTHER -> c

NothingToAdjust(t) ==
  /\ call[t].op \in Adjusting /\ call[t].at = "inside" /\ object = "alive" /\ nvenc = "null"
  /\ Goto(t, "leaving")
  /\ UNCHANGED <<handle, object, mutex, nvenc, live, config, driver, initResult, fault>>

\* set_bitrate sizes the VBV buffer for one frame: it divides by frameRateNum.
GetInitializeParams(t) ==
  /\ call[t].op \in Adjusting /\ call[t].at = "inside" /\ object = "alive" /\ nvenc # "null"
  /\ IF call[t].op = "set_bitrate" /\ config.framerate = 0
     THEN fault' = "divide" /\ UNCHANGED call
     ELSE /\ call' = [call EXCEPT ![t].at = "adjusted",
                                  ![t].copy = Adjusted(call[t].op, call[t].rate, config)]
          /\ UNCHANGED fault
  /\ UNCHANGED <<handle, object, mutex, nvenc, live, config, driver, initResult>>

\* What the encoder keeps of parameters the driver refused.  (First: all.)
KeepsRefused(t) == config' = call[t].copy
KeepsOld(t) == UNCHANGED config

\* The driver takes the parameters or refuses them; without an encoder it refuses.
Reconfigure(t) ==
  /\ call[t].at = "adjusted" /\ object = "alive"
  /\ \/ /\ nvenc \in {"half", "ready"}
        /\ driver' = call[t].copy /\ config' = call[t].copy /\ Goto(t, "leaving")
     \/ KeepsOld(t) /\ Goto(t, Thrown) /\ UNCHANGED driver
  /\ UNCHANGED <<handle, object, mutex, nvenc, live, initResult, fault>>

-----------------------------------------------------------------------------
(* The other calls. *)

\* Without an encoder encode returns; in a session that was only opened it
\* takes m_iToSend modulo a ring of size zero; in one that broke off it may
\* find no input frame at the slot.
Encode(t) ==
  /\ At(t, "encode", "inside") /\ object = "alive"
  /\ \/ nvenc = "opened" /\ fault' = "divide" /\ UNCHANGED call
     \/ nvenc = "half" /\ fault' = "range" /\ UNCHANGED call
     \/ nvenc # "opened" /\ Goto(t, "leaving") /\ UNCHANGED fault
  /\ UNCHANGED <<handle, object, mutex, nvenc, live, config, driver, initResult>>

GetSequenceParams(t) ==
  /\ At(t, "get_sequence_params", "inside") /\ object = "alive"
  /\ Goto(t, "leaving")
  /\ UNCHANGED <<handle, object, mutex, nvenc, live, config, driver, initResult, fault>>

\* Neither the mutex nor a check for null.
GetFrameSize(t) ==
  /\ At(t, "get_framesize", "inside") /\ object = "alive"
  /\ \/ nvenc = "null" /\ fault' = "null" /\ UNCHANGED call
     \/ nvenc = "dangling" /\ fault' = "freed" /\ UNCHANGED call
     \/ /\ nvenc \notin {"null", "dangling"}
        /\ call' = [call EXCEPT ![t] = NoCall] /\ UNCHANGED fault
  /\ UNCHANGED <<handle, object, mutex, nvenc, live, config, driver, initResult>>

-----------------------------------------------------------------------------
(* destroy. *)

DestroyEncoder(t) ==
  /\ At(t, "destroy", "inside")
  /\ IF nvenc = "null" THEN Goto(t, "unlocking") /\ UNCHANGED <<nvenc, live, driver>>
     ELSE /\ nvenc' = "dangling" /\ live' = live - 1 /\ driver' = NoConfig
          /\ Goto(t, "emptied")
  /\ UNCHANGED <<handle, object, mutex, config, initResult, fault>>

\* (First: the pointer is left as it is, to be deleted with nvenc_data.)
NotNulled == "dangling"
Nulled == "null"
NullEncoder(t) == /\ At(t, "destroy", "emptied") /\ nvenc' = Nulled /\ Goto(t, "unlocking")
                  /\ UNCHANGED <<handle, object, mutex, live, config, driver, initResult, fault>>

UnlockToDelete(t) == /\ At(t, "destroy", "unlocking") /\ mutex' = Nobody /\ Goto(t, "deleting")
                     /\ UNCHANGED <<handle, object, nvenc, live, config, driver, initResult, fault>>

DeleteData(t) == /\ At(t, "destroy", "deleting") /\ object' = "deleted" /\ Goto(t, "nulling")
                 /\ UNCHANGED <<handle, mutex, nvenc, live, config, driver, initResult, fault>>

NullHandle(t) == /\ At(t, "destroy", "nulling") /\ handle' = "null"
                 /\ call' = [call EXCEPT ![t] = NoCall]
                 /\ UNCHANGED <<object, mutex, nvenc, live, config, driver, initResult, fault>>

-----------------------------------------------------------------------------
CallEnds(t) == \/ Return(t) \/ UseFreed(t)
               \/ InitRefused(t) \/ OpenSession(t) \/ CreateEncoder(t)
               \/ NothingToAdjust(t) \/ GetInitializeParams(t) \/ Reconfigure(t)
               \/ Encode(t) \/ GetSequenceParams(t) \/ GetFrameSize(t)
               \/ DestroyEncoder(t) \/ NullEncoder(t) \/ UnlockToDelete(t)
               \/ DeleteData(t) \/ NullHandle(t)

Step(t) == Lock(t) \/ CallEnds(t)

Next == /\ fault = "none"
        /\ \/ Create \/ OwnerCalls
           \/ \E t \in Controllers : ControllerCalls(t)
           \/ \E t \in Threads : Step(t)

Spec == Init /\ [][Next]_vars

\* A thread inside a call goes on.  Nothing is assumed of who gets the mutex.
FairSpec == Spec /\ \A t \in Threads : WF_vars(fault = "none" /\ CallEnds(t))

-----------------------------------------------------------------------------
(* Properties. *)

Places == {"locking", "inside", "opened", "adjusted", "leaving", "emptied",
           "unlocking", "deleting", "nulling"}
CallInProgress == [op : Adjusting \union Using \union {"init", "destroy"}, rate : Nat,
                   at : Places, copy : Config]

\* Every variable keeps its type; a thread that is in no call holds nothing of one.
TypeOK == /\ handle \in {"null", "data"} /\ object \in {"none", "alive", "deleted"}
          /\ mutex \in Threads \union {Nobody}
          /\ nvenc \in {"null", "opened", "half", "ready", "dangling"}
          /\ live \in Nat /\ config \in Config /\ driver \in Config
          /\ call \in [Threads -> CallInProgress \union {NoCall}]
          /\ initResult \in {"none", "ok", "failed"}
          /\ fault \in {"none", "freed", "null", "divide", "range"}

\* Concurrent set_bitrate, set_framerate and request_idr lose no update: each
\* reads all parameters and sends all of them, and still the driver only ever
\* sees one setting change, also after it has refused one
\* (c_encoder_nv_impl.cpp:163-185, 198-213, 226-240, NvEncoder.cpp:506-514).
Rates == INSTANCE RateSettings WITH settings <- driver
OneSettingAtATime == Rates!Spec

\* nvenc_data owns the one encoder there is: a second init does not replace it
\* and none is left when nvenc_data is deleted (c_encoder_nv_impl.cpp:65-69,
\* 88-91, 106).
OneEncoder == live = IF nvenc \in {"null", "dangling"} THEN 0 ELSE 1

\* Once init has returned true, and until destroy is called, no call of any
\* thread crashes, unless the driver has accepted a frame rate of zero
\* (c_encoder_nv_impl.cpp:156-308).
UsableFromInitToDestroy ==
  /\ initResult = "ok" /\ object = "alive" /\ call[Owner].op # "destroy"
  /\ driver.framerate # 0
  => fault = "none"

\* Destroy takes the encoder away only between the calls of other threads: a call
\* that has begun to set it up or to adjust it still has it, in nvenc_data that is
\* alive, and a call that gets the mutex from destroy, before nvenc_data is
\* deleted, finds no pointer to what was deleted.  The one exception is
\* get_framesize, which does not take the mutex
\* (c_encoder_nv_impl.cpp:63-74, 88-107, 163-240, 248).
UsesLiveEncoder ==
  \A t \in Threads :
    /\ call[t].at \in {"opened", "adjusted"} =>
         object = "alive" /\ nvenc \in {"opened", "half", "ready"}
    /\ call[t].at = "inside" /\ call[t].op # "get_framesize" => nvenc # "dangling"

\* The mutex is always given back, also by a call that throws
\* (c_encoder_nv_impl.cpp:63-74, 88, 163, 198, 226, 259, 298).
MutexReleased == mutex # Nobody ~> (mutex = Nobody \/ fault # "none")
=============================================================================
