---------------------------- MODULE StartupProofs ---------------------------
(***************************************************************************)
(* Proofs about Startup, for every file, command line, width of an int and *)
(* limit of the kernel and of the stack.                                   *)
(***************************************************************************)
EXTENDS Startup, TLAPS

USE DEF deviceVars, world

(* A long cut to an int is an int.                                         *)
LEMMA ToIntRange ==
  ASSUME NEW x \in Int PROVE ToInt(x) \in -IntHalf .. IntHalf - 1
<1> DEFINE m == 2 * IntHalf
<1>1. IntHalf \in Nat /\ IntHalf > 0 /\ m \in Nat /\ m > 0
  BY StartupAssumption
<1>2. (x + IntHalf) % m \in 0 .. m - 1
  <2> HIDE DEF m
  <2> QED
    BY <1>1, SMT
<1> QED
  BY <1>1, <1>2, SMT DEF ToInt

(* What a file that loads says becomes three ints.                         *)
LEMMA ConvertedType ==
  ASSUME NEW file \in Numbers
  PROVE  Converted(file) \in Settings(-IntHalf .. IntHalf - 1)
BY ToIntRange DEF Converted, Numbers, Settings

(* The default file is one of a disk's, and loads or does not.             *)
LEMMA DiskContent ==
  ASSUME WorldOK PROVE disk[DefaultConf] \in Numbers \cup {Unreadable}
BY StartupAssumption DEF WorldOK, Content

-----------------------------------------------------------------------------
(* The process starts with the device closed and nothing read.             *)
LEMMA InitInv == Init => Inv
<1> SUFFICES ASSUME Init PROVE Inv
  OBVIOUS
<1>1. 0 \in -IntHalf .. IntHalf - 1
  BY StartupAssumption, SMT
<1>2. TypeOK
  BY <1>1 DEF Init, DeviceInit, TypeOK, DeviceTypeOK, Settings, GflagsDefault,
              Ended
<1>3. DeviceOpens /\ FlagsFollow /\ WorldOK
  BY DEF Init, DeviceInit, DeviceOpens, FlagsFollow, WorldOK, Starting, Running
<1> QED
  BY <1>2, <1>3 DEF Inv

(* Every step of the process keeps its variables in their types.           *)
LEMMA StepTypeOK == Inv /\ [Next]_vars => TypeOK'
<1> SUFFICES ASSUME Inv, [Next]_vars PROVE TypeOK'
  OBVIOUS
<1> USE DEF Inv, TypeOK, DeviceTypeOK
<1>0. config \in Settings(Int)
  BY StartupAssumption, SMT DEF Settings
<1>1. CASE ParseConfig
  <2>1. config' \in Settings(-IntHalf .. IntHalf - 1)
    <3>1. flags.conf = DefaultConf
      BY <1>1 DEF ParseConfig, FlagsFollow
    <3> QED
      BY <1>1, <3>1, DiskContent, ConvertedType DEF ParseConfig
  <2> QED
    BY <1>1, <2>1 DEF ParseConfig, Ended
<1>2. CASE InitLogging
  <2>1. line.max_log_size \in Int \cup {NotGiven} /\ config.log_size \in Int
    BY <1>0, StartupAssumption DEF WorldOK, Settings
  <2> QED
    BY <1>2, <2>1 DEF InitLogging, Given, Ended
<1>3. CASE BlockSignals
  BY <1>3 DEF BlockSignals, Ended
<1>4. CASE OpenDevice
  <2>1. config.max_queue_depth \in Int
    BY <1>0 DEF Settings
  <2>2. opening' \in {"stat", "queue", "thread", "open", "failed"}
    BY <1>4 DEF OpenDevice, Open, OpenFile, StatFile, SetupQueue, CreateReaper
  <2>3. dev' \in [fd : BOOLEAN, ring : BOOLEAN, max_iodepth : Int,
                 aio_stop : BOOLEAN]
    <3>1. CASE OpenFile \/ StatFile \/ CreateReaper
      BY <3>1 DEF OpenFile, StatFile, CreateReaper
    <3> DEFINE depth == config.max_queue_depth
    <3>2. CASE SetupQueue(depth)
      <4>1. dev \in [fd : BOOLEAN, ring : BOOLEAN, max_iodepth : Int,
                     aio_stop : BOOLEAN]
        OBVIOUS
      <4>2. \/ dev' = [dev EXCEPT !.ring = TRUE, !.max_iodepth = depth,
                                  !.aio_stop = FALSE]
            \/ dev' = [dev EXCEPT !.max_iodepth = depth, !.aio_stop = FALSE]
        BY <3>2, Zenon DEF SetupQueue
      <4> HIDE DEF depth, Inv, TypeOK, DeviceTypeOK
      <4> QED
        BY <2>1, <4>1, <4>2 DEF depth
    <3> QED
      BY <1>4, <3>1, <3>2 DEF OpenDevice, Open
  <2>4. reaper' \in {"none", "created", "reaping", "ended"} /\ io' = io
    BY <1>4 DEF OpenDevice, Open, OpenFile, StatFile, SetupQueue, CreateReaper
  <2> QED
    BY <1>4, <2>2, <2>3, <2>4 DEF OpenDevice
<1>5. CASE DeviceOpened \/ Listen \/ Overflow
  BY <1>5 DEF DeviceOpened, Listen, Overflow, Ended
<1>6. CASE ReaperThread
  BY <1>6, SMT
  DEF ReaperThread, Reaper, ReaperStarts, ReaperReads, ReaperCounts
<1>7. CASE Kernel \/ Serve(\E i \in Ios : Accept(i))
  BY <1>7 DEF Kernel, Serve, Complete, Accept
<1>8. CASE Serve(Stop)
  BY <1>8 DEF Serve, Stop
<1>9. CASE UNCHANGED vars
  BY <1>9 DEF vars
<1> QED
  BY <1>1, <1>2, <1>3, <1>4, <1>5, <1>6, <1>7, <1>8, <1>9 DEF Next, MainThread

(* The device opens in order, and has the queue the kernel granted from    *)
(* its set-up to the stop.                                                 *)
LEMMA StepDeviceOpens == Inv /\ [Next]_vars => DeviceOpens'
<1> SUFFICES ASSUME Inv, [Next]_vars PROVE DeviceOpens'
  OBVIOUS
<1> USE DEF Inv, TypeOK, DeviceTypeOK, DeviceOpens, Starting, Running
<1>1. CASE ParseConfig
  BY <1>1 DEF ParseConfig
<1>2. CASE InitLogging
  BY <1>2 DEF InitLogging
<1>3. CASE BlockSignals
  BY <1>3 DEF BlockSignals
<1>4. CASE OpenDevice
  <2>1. pc = "device" /\ pc' = pc
    BY <1>4 DEF OpenDevice
  <2>2. CASE OpenFile
    BY <2>1, <2>2 DEF OpenFile
  <2>3. CASE StatFile
    BY <2>1, <2>3 DEF StatFile
  <2>4. CASE SetupQueue(config.max_queue_depth)
    <3>1. dev.fd /\ ~ dev.ring
      BY <2>4 DEF SetupQueue
    <3>2. CASE opening' = "thread"
      <4>1. /\ config.max_queue_depth \in 1 .. KernelEvents
            /\ dev' = [dev EXCEPT !.ring = TRUE,
                                 !.max_iodepth = config.max_queue_depth,
                                 !.aio_stop = FALSE]
        BY <2>4, <3>2 DEF SetupQueue
      <4>2. /\ dev'.fd = dev.fd /\ dev'.ring = TRUE /\ dev'.aio_stop = FALSE
            /\ dev'.max_iodepth = config.max_queue_depth
        BY <4>1
      <4> QED
        BY <2>1, <3>1, <3>2, <4>1, <4>2
    <3>3. CASE opening' = "failed"
      <4>1. dev' = [dev EXCEPT !.max_iodepth = config.max_queue_depth,
                               !.aio_stop = FALSE]
        BY <2>4, <3>3 DEF SetupQueue
      <4>2. dev'.fd = dev.fd /\ dev'.ring = dev.ring
        BY <4>1
      <4> QED
        BY <2>1, <3>1, <3>3, <4>2
    <3> QED
      BY <2>4, <3>2, <3>3 DEF SetupQueue
  <2>5. CASE CreateReaper
    BY <2>1, <2>5 DEF CreateReaper
  <2> QED
    BY <1>4, <2>2, <2>3, <2>4, <2>5 DEF OpenDevice, Open
<1>5. CASE DeviceOpened \/ Listen \/ Overflow
  BY <1>5 DEF DeviceOpened, Listen, Overflow
<1>6. CASE ReaperThread
  BY <1>6 DEF ReaperThread, Reaper, ReaperStarts, ReaperReads, ReaperCounts
<1>7. CASE Kernel \/ Serve(\E i \in Ios : Accept(i))
  BY <1>7 DEF Kernel, Serve, Complete, Accept
<1>8. CASE Serve(Stop)
  BY <1>8 DEF Serve, Stop
<1>9. CASE UNCHANGED vars
  BY <1>9 DEF vars
<1> QED
  BY <1>1, <1>2, <1>3, <1>4, <1>5, <1>6, <1>7, <1>8, <1>9 DEF Next, MainThread

(* The command line is parsed after the configuration was read.            *)
LEMMA StepFlagsFollow == Inv /\ [Next]_vars => FlagsFollow' /\ WorldOK'
<1> SUFFICES ASSUME Inv, [Next]_vars PROVE FlagsFollow' /\ WorldOK'
  OBVIOUS
<1> USE DEF Inv, FlagsFollow, WorldOK
<1>1. CASE MainThread
  BY <1>1 DEF MainThread, ParseConfig, InitLogging, BlockSignals, OpenDevice,
              DeviceOpened, Listen
<1>2. CASE ReaperThread \/ Overflow
  BY <1>2 DEF ReaperThread, Reaper, Overflow
<1>3. CASE Kernel \/ Serve(\E i \in Ios : Accept(i)) \/ Serve(Stop)
  BY <1>3 DEF Kernel, Serve
<1>4. CASE UNCHANGED vars
  BY <1>4 DEF vars
<1> QED
  BY <1>1, <1>2, <1>3, <1>4 DEF Next

(* The inductive invariant of the process holds for ever.                  *)
THEOREM InvCorrect == Spec => []Inv
<1>1. Inv /\ [Next]_vars => Inv'
  BY StepTypeOK, StepDeviceOpens, StepFlagsFollow DEF Inv
<1> QED
  BY <1>1, InitInv, PTL DEF Spec

(* Every variable of the process keeps its type: in particular each number *)
(* of the configuration is an int, whatever the file says.                 *)
THEOREM TypeCorrect == Spec => []TypeOK
<1>1. Inv => TypeOK
  BY DEF Inv
<1> QED
  BY <1>1, InvCorrect, PTL

(* A server that serves has a device its calls can submit to, until it is  *)
(* stopped.                                                                *)
THEOREM ServingIsReadyHolds == Spec => []ServingIsReady
<1>1. Inv => ServingIsReady
  BY DEF Inv, DeviceOpens, Running, ServingIsReady, Ready
<1> QED
  BY <1>1, InvCorrect, PTL

=============================================================================
