------------------------------ MODULE Startup -------------------------------
(***************************************************************************)
(* The server process from main (src/store/bitstore/src/main.cc) to its    *)
(* last thread: init reads the configuration, sets up logging from it and  *)
(* blocks signals, the constructor of BitStore opens the device, and Run   *)
(* serves calls (server/bitstore.cc).                                      *)
(*                                                                         *)
(* What parse_config makes of a file is the subject of Config; here a file *)
(* says three numbers, as strtol reads them, and iniparser_getint cuts     *)
(* each long down to an int.                                               *)
(***************************************************************************)
EXTENDS DeviceLifecycle

CONSTANTS
  DefaultConf,    \* FLAGS_conf unless the command line says otherwise
  Disks,          \* what the paths may hold: a function from path to Content
  CommandLines,   \* the command lines main may be given
  NotGiven,       \* for a flag that is not on the command line
  Unreadable,     \* a file that iniparser_load does not load
  IntHalf         \* an int is at least -IntHalf and less than IntHalf (2^31)

Settings(S) == [max_queue_depth : S, aio_reap_max : S, log_size : S]
Numbers == Settings(Int)
Content == Numbers \cup {Unreadable}

ASSUME StartupAssumption ==
  /\ IntHalf \in Nat \ {0}
  /\ Unreadable \notin Numbers
  /\ \A disk \in Disks : disk \in [DOMAIN disk -> Content]
  /\ \A disk \in Disks : DefaultConf \in DOMAIN disk
  /\ \A line \in CommandLines : line.max_log_size \in Int \cup {NotGiven}

VARIABLES
  disk, line,   \* the files, and the command line
  pc,           \* where the main thread is, or how the process ended
  config,       \* ctx.config
  flags         \* FLAGS_conf and FLAGS_max_log_size

vars == <<deviceVars, disk, line, pc, config, flags>>
world == <<disk, line>>

Ended == {"exited", "aborted", "crashed"}

TypeOK ==
  /\ DeviceTypeOK
  /\ pc \in {"config", "logging", "signals", "device", "listen", "serving"}
              \cup Ended
  /\ config \in Settings(-IntHalf .. IntHalf - 1)
  /\ flags.max_log_size \in Int

GflagsDefault == 1800        \* of max_log_size, in glog

Init ==
  /\ DeviceInit
  /\ disk \in Disks
  /\ line \in CommandLines
  /\ pc = "config"
  /\ config = [max_queue_depth |-> 0, aio_reap_max |-> 0, log_size |-> 0]
  /\ flags = [conf |-> DefaultConf, max_log_size |-> GflagsDefault]

-----------------------------------------------------------------------------
(* (int) of a long                                                         *)
ToIntUncut(x) == x                                    \* mutant: a long kept
ToInt(x) == ((x + IntHalf) % (2 * IntHalf)) - IntHalf

Converted(file) ==
  [max_queue_depth |-> ToInt(file.max_queue_depth),
   aio_reap_max |-> ToInt(file.aio_reap_max),
   log_size |-> ToInt(file.log_size)]

ParseConfig ==
  /\ pc = "config"
  /\ IF disk[flags.conf] = Unreadable
       THEN pc' = "exited" /\ UNCHANGED config
       ELSE pc' = "logging" /\ config' = Converted(disk[flags.conf])
  /\ UNCHANGED <<deviceVars, world, flags>>

(* google::ParseCommandLineFlags: what is given replaces what is set, and  *)
(* a flag that does not exist ends the process.                            *)
Given(flag, value) == IF flag = NotGiven THEN value ELSE flag

InitLogging ==
  /\ pc = "logging"
  /\ pc' = IF line.unknown THEN "exited" ELSE "signals"
  /\ flags' = [conf |-> Given(line.conf, flags.conf),
               max_log_size |-> Given(line.max_log_size, config.log_size)]
  /\ UNCHANGED <<deviceVars, world, config>>

(* pthread_sigmask; its failure is logged with FATAL, which aborts.  Then  *)
(* main constructs the service, whose constructor opens the device.        *)
BlockSignals ==
  /\ pc = "signals"
  /\ \/ pc' = "device" /\ opening' = "file"
     \/ pc' = "aborted" /\ UNCHANGED opening
  /\ UNCHANGED <<dev, reaper, io, world, config, flags>>

OpenDevice ==
  /\ pc = "device"
  /\ Open(config.max_queue_depth)
  /\ UNCHANGED <<pc, world, config, flags>>

(* An error is thrown out of the constructor and nobody catches it.        *)
DeviceOpened ==
  /\ pc = "device"
  /\ \/ opening = "open" /\ pc' = "listen"
     \/ opening = "failed" /\ pc' = "aborted"
  /\ UNCHANGED <<deviceVars, world, config, flags>>

(* BuildAndStart returns NULL when it cannot listen on the address, and    *)
(* Wait is called on it.                                                   *)
Listen ==
  /\ pc = "listen"
  /\ pc' \in {"serving", "crashed"}
  /\ UNCHANGED <<deviceVars, world, config, flags>>

MainThread ==
  ParseConfig \/ InitLogging \/ BlockSignals \/ OpenDevice \/ DeviceOpened
    \/ Listen

-----------------------------------------------------------------------------
(* The reaper, which may run before its creator goes on, and the calls.    *)
Reaper(step) ==
  /\ pc \notin Ended
  /\ step
  /\ UNCHANGED <<pc, world, config, flags>>

Overflow ==
  /\ pc \notin Ended
  /\ StackOverflows(config.aio_reap_max)
  /\ pc' = "crashed"
  /\ UNCHANGED <<deviceVars, world, config, flags>>

ReaperThread ==
  /\ ~ StackOverflows(config.aio_reap_max)
  /\ Reaper(ReaperStarts(config.aio_reap_max)
              \/ ReaperReads(config.aio_reap_max)
              \/ \E i \in Ios : ReaperCounts(i))

Serve(step) ==
  /\ pc = "serving"
  /\ step
  /\ UNCHANGED <<pc, world, config, flags>>

Kernel == Serve(\E i \in Ios : Complete(i))

Next ==
  \/ MainThread \/ ReaperThread \/ Overflow \/ Kernel
  \/ Serve(\E i \in Ios : Accept(i))
  \/ Serve(Stop)

Spec == Init /\ [][Next]_vars

(* The threads and the kernel run; nobody need send a call or stop.        *)
FairSpec ==
  Spec /\ WF_vars(MainThread) /\ WF_vars(ReaperThread) /\ WF_vars(Kernel)
       /\ WF_vars(Overflow)

-----------------------------------------------------------------------------
(* A server that serves has a device its calls can submit to, until the    *)
(* device is stopped: whatever number the file gives for the depth of the  *)
(* queue, and however it is cut to an int, a depth that would let          *)
(* aio_queue_submit loop without advancing does not get this far.          *)
ServingIsReady == (pc = "serving" /\ ~ dev.aio_stop) => Ready

(* The inductive invariant behind ServingIsReady: how far the device is    *)
(* follows from where the main thread is; there is a queue exactly from    *)
(* its set-up to the stop, never one that outlives a failed opening, and   *)
(* then it has the depth that the kernel granted.  The file that is read   *)
(* is the default one, which is of a disk's (WorldOK).                     *)
Starting == {"config", "logging", "signals"}
Running  == {"listen", "serving"}

DeviceOpens ==
  /\ pc \in Starting => opening = "closed"
  /\ pc \in Running => opening = "open"
  /\ opening \in {"stat", "queue", "thread", "open"} => dev.fd
  /\ dev.ring <=> (opening \in {"thread", "open"} /\ ~ dev.aio_stop)
  /\ opening \in {"thread", "open"} => dev.max_iodepth \in 1 .. KernelEvents
  /\ opening = "thread" => ~ dev.aio_stop

FlagsFollow == pc \in {"config", "logging"} => flags.conf = DefaultConf

WorldOK == disk \in Disks /\ line \in CommandLines

Inv == TypeOK /\ WorldOK /\ DeviceOpens /\ FlagsFollow

(* What is in flight is counted, and so its call woken, unless the device  *)
(* was stopped under it or the server runs without a reaper: the thread    *)
(* could not be created or had no memory, or aio_reap_max is not positive. *)
Unserved ==
  \/ reaper \in {"none", "ended"}
  \/ config.aio_reap_max <= 0
  \/ dev.aio_stop
  \/ pc = "crashed"

InFlightCounted ==
  \A i \in Ios : io[i] = "inflight" ~> (io[i] = "counted" \/ Unserved)

=============================================================================
