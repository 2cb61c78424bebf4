# CKRIOPassthru: specification, model checking and proofs

CKRIOPassthru is the program on the roboRIO of an FRC robot. It passes
commands through: an external controller (ROS, on another computer) sends
protobuf messages over UDP, and the program applies them to motors, solenoids,
IMUs and LEDs. When the external controller is silent the program drives the
robot itself ("failover"), by placing messages of its own in the map from which
the received ones are applied.

The specifications here are translated from the code under `src/main`
(files are named without their directories, `src/main/cpp` and `src/main/include`).
`PROJECT.json` maps every definition to the lines it stands for.

## 1. Inventory

| Component | State | Operations | Interacts with |
|---|---|---|---|
| Control hand-over: `Robot`, `RobotFailover`, `FailoverMessageManager`, `NetworkManager`, `ExternalControlManager` | failover flag and subsystem state (main thread), message map, connection counter, control mode (shared) | LoopFunc, mode init/periodic, RobotPeriodic, publishMessages, receiveMessagePump, getMessage, processHeartbeat | scheduler thread through the map (a lock per access), the counter and the control mode (no lock) |
| Task scheduler: `TaskScheduler`, `Task` | task list, due times, HAL notifier alarm | scheduleTask, start, run, stop | runs every task below on one thread |
| Motor registry and configuration: `MotorManager`, `MotorConfigManager`, `ApplyMotorValuesTask`, `ApplyMotorConfigTask` | three maps by motor id, last received and last applied configuration | registerMotor, deleteMotor, processHeartbeat, setMotorsConfigMsg, full and differential update | message map, control mode |
| Solenoids and compressor: `SolenoidManager`, `CKSolenoid`, `ApplySolenoidValuesTask` | three maps by id, previous message, timer, compressor | registerSolenoid, set, deleteSolenoid, processHeartbeat | message map, control mode, clock |
| IMUs: `CKIMUManager`, `ApplyIMUConfigTask` | maps by id, last message whose write succeeded | registerIMU, configMountPose; deleteIMU and processHeartbeat are called by nobody | message map |
| LED controllers: `CANdleManager`, `ApplyLEDControlTask` | maps by id, previous messages (kept when an object is deleted) | registerCANdle, complete and differential update of colour and animations, deleteCANdle, processHeartbeat | message map |
| Failover subsystems: swerve drive, arm, intake, LED | joystick, drive and steering set-points, measured angles | init, periodic, run, uninit | `FailoverMessageManager`, motor objects |
| Telemetry: `Send*Task`, `RobotDataHelper` | atomics filled by a background thread | run | registries, sockets |
| Logger, timers, caches, arithmetic helpers | a queue; clocks; none | enqueue/write; elapsed; pure functions | several |
| Not on the robot's control path | CAN server, LED patterns, `DrivetrainFailover`, encoder tasks (all commented out or unused) | | |

Behaviours that are hard here:

- Two threads. The main thread (every 20 ms) and the scheduler thread share the
  message map, the connection counter and the control mode. The main thread
  reads the connection several times in one loop.
- Time-outs that are counted, not timed: "5 s" is 250 runs of a task, which the
  scheduler may run late and then in a burst.
- Deciding by comparison: configuration and solenoid messages are applied by
  difference to a remembered message, whose object may have been deleted,
  created anew, or not configured at all.
- UDP: loss, repetition, any order; one slot per group, so that a later message
  replaces one that was not yet read, whoever sent it.

What makes each component correct:

- *Hand-over*: exactly one side drives; it changes within the time-out; what the
  losing side left behind is bounded; a disabled robot stops.
- *Scheduler*: every task runs at its rate, without drift, also after a stall or
  an exception, and the thread can be stopped.
- *Motor registry*: the maps agree, an object exists only while commanded and
  configured, the hardware has the configuration that counts as applied.
- *Solenoids*: skipping a repeated message is sound for values and lifetimes.
- *IMUs*: a pose that could not be written is written later, one that was is not
  written again.
- *LED controllers*: an update stops the animations that run, whichever message
  started them.
- *Failover subsystems*: taking over does not move anything that was not asked
  to move; a wheel that pushes, pushes the way the stick asks.

`PROJECT.json` lists the hazards line by line with the properties that cover
them.

## 2. Plan

| Order | Module | Composes / implements | State |
|---|---|---|---|
| 1 | `ControlHandoff` | both threads around the message map | done, proved |
| 2 | `MotorRegistry` | both managers and both tasks | done, proved |
| 3 | `TaskScheduler` | implements `PeriodicTasks` | done, proved |
| 4 | `Solenoids` | manager, task, valve | done, proved |
| 5 | `IMURegistry` | manager, task | done, proved |
| 6 | `CANdles` | manager, task; implements `HeartbeatLease` | done, proved |
| 7 | `SwerveFailover` | failover loop, message map and motor tasks, with the motor objects on a `HeartbeatLease` | done, proved |
| 8 | `HeartbeatLease` | the abstract lease of the device registries; implemented by `MotorRegistry`, `CANdles`, `Solenoids` and the connection of `ControlHandoff` | done, refinements proved |
| 9 | `FailoverMessages` | which motors and solenoids the failover messages list, against the messages of the external controller | later |
| 10 | `RobotData`, `Logger`, the remaining arithmetic | the two small thread pairs; ramp and drive helpers | later, of little interest |

Abstract specifications: `PeriodicTasks` and `HeartbeatLease`. The lease says
nothing of how often it is renewed. For the solenoids that is the question: a
message that equals the previous one renews their leases only when the mandatory
update is due, and `DeletedOnlyWhenSilent` is about this.

## 3. The modules

**`ControlHandoff`.** A step is an interval in which a thread touches shared
state once. The main thread is `LoopFunc` (mode), `ModePeriodic` (failover drive
in teleop), then `RobotPeriodicExternal` or `RobotPeriodicFailover`, and
`placeFailoverMessage` once per group, because the lock is taken per group. The
scheduler thread is idle between two tasks; the pump takes one step per datagram
for the map and one for the counter, since the first is under the lock and the
second is not. `ApplyMotorValues` (getMessage), `SetMotors` and `DisableMasters`
are apart: the lock is given up with the message in hand (`taken`), and the
control mode is read at the end of the task. A datagram carries its group, a
drive level and whether its length is EAGAIN, with which the pump compares it.
The mode is chosen by the driver station, any mode at any pass. `silence` and
`staleApplied` are history.

**`MotorRegistry`.** `CommandMotor` is one motor of a control message,
`ConfigureMotor` one motor of a configuration message; `ValuesBegin`/
`ConfigBegin` and `DisableMasters`/`ConfigEnd` are the beginning and the end of
the two tasks; `processHeartbeat` is the loop over the heartbeats with both
managers' deletions. One `setting` stands for the fields which both the complete
and the differential update write. Writes may fail for good. A master that is
listed as a follower's master is never a follower itself (`RegistryAssumption`).

**`TaskScheduler` and `PeriodicTasks`.** A pass reads the clock, looks at one
task per step, sets the alarm and sleeps; a task may throw; `stop` is three
steps of another thread. `start` asks only whether there is a thread to join
(`joinable`), so that the scheduler may be started again after `stop`; its
notifier stays stopped, and the program itself starts it once. The HAL notifier
is external: waiting ends at the alarm
or when the notifier was stopped. The clock advances by itself. `PeriodicTasks`
says only when run number k of a task may take place.

**`Solenoids`.** A task is one step, as nothing else looks at its state.
`ApplySolenoidValues` handles a message that parses or not; `Tick` is 20 ms of
time; `processHeartbeat` consumes a tick that has passed and may be late by up
to `MaxLag` ticks. `silent` counts the heartbeats since a message that parsed
listed the solenoid, applied or not; `passedOver` are the solenoids that a message
began to list again without being applied. The value of a valve without an object is unknown. A message
gives each id one command: repeated ids in one message are not modelled. Module and
channel are cut out of an id as `CKSolenoid` does it (`getModuleId`,
`getSolenoidId`, `HasHardware`).

**`HeartbeatLease`.** What the registries promise: an object is held on a lease of
`MaxTicks` heartbeats, renewed by messages at any time, deleted by the heartbeat
that ends the lease and by nothing else. `MotorRegistry`, `CANdles` and
`Solenoids` implement it (`leases` is the refinement mapping: the heartbeat map,
on the ids that have an object), and so does the connection to the external
controller in `ControlHandoff` (`connection`: one object while
`isExternalControl()`, with the counter as its ticks); `SwerveFailover` uses it
in place of the motor registry.

**`CANdles`.** `ApplyLEDControl` takes a message, `HandleCANdle` is one controller
of it: registration, then an update that is complete or by difference, as the
comparison of sizes says, then the recording of the message. A colour is the
set of its lit channels, or left out of the message (`NoColor`), an animation its
slot; that is enough to tell what the differencer reports to the update functions
(something added, or changed, such as a channel that goes dark) from what it
reports as deleted, for which there is none (the mode back at its default, the
colour left out, animations missing at the end of the list). Clearing, starting and setting may each fail at
every retry. `orphaned` and `missed` remember what the code has lost track of.

**`IMURegistry`.** `ConfigureIMU` is one IMU of a message; `k` is the try at which
`runPhoenixFunctionWithRetry` would succeed for the first time, so that a success
at the last try, which is reported as a failure, is one of the cases.
`ProcessHeartbeat` leaves the registry alone, as `ProcessHeartbeatTask` does.

**`SwerveFailover`.** The main thread is `ModePeriodic` (the joystick), then
`RobotPeriodicExternal` (with the reset) or `RobotPeriodicFailover` (with the
activation), `publishMessages` and `SubsystemPeriodic` (measuring). The scheduler
thread takes configuration and commands out of the map (`ApplyMotorValues`, then
`SetMotors` without the lock), and its heartbeat deletes motors. A wheel is its two motors. Headings are whole degrees that
the conversion to sensor units maps exactly (`Exact`), so that no rounding is
needed; the sensor position is not wrapped at a full turn. The joystick's axes
ask for any heading of the set; centred ones repeat the remembered headings, as
WPILib's kinematics do. `Turn` lets a wheel go to its set-point under failover
and anywhere otherwise. `takeover` is history.

`MC*` modules give the constants their values for TLC; `*Proofs` modules hold
the theorems.

## 4. The runs

| Run | Question | Bounds, and why they are enough |
|---|---|---|
| `handoff_safety` | Failover state consistent, at most two stale commands, connection counted exactly | Time-out 2, publication period 2, one group of each kind, one datagram waiting. Time-out 2 tells "just received", "about to expire" and "expired" apart; one group per kind gives every order of placing and taking; further datagrams only repeat the pump's loop |
| `handoff_liveness` | Does each side get and keep control; does a disabled robot stop | Two groups. Time-out 2: with 1 the connection would drop at every heartbeat, and the premise "stays connected" would never hold |
| `handoff_timeout_doc` | The "500ms timeout" of `ExternalControlManager.cpp:9` | The real 50 ticks of 20 ms. Violated: it is 1000 ms |
| `motors` | Maps, configuration, followers, deletion, leases; configuration in the end | A master and its follower, two settings (one the default), 3 heartbeats. Two motors are needed for messages of different sizes and for the order follower/master |
| `scheduler` | Schedule, wake-up, refinement, catching up, stop | Rates 1 and 2 and a task without a rate, listed in any order and number; clock up to 4: several periods of each, and passes late by more than a period |
| `scheduler_tick_doc` | "20ms per tick" (`MotorManager.hpp:43`) | Clock up to 6, so that the scheduler can start late. Violated: it makes up for the time before its start |
| `solenoids` | Maps, values under skipping, no early deletion; the value comes back, the compressor stops | Two solenoids (channel 3 of a REV hub, and channel 8 of module 1, for which a CTRE module has no hardware), both types, a value both accept and one that one refuses, the second solenoid commanded in one way and by every message that asks for the compressor; 4 heartbeats against a mandatory period of 1 and a lateness of 1, so that the limit of `DeletedOnlyWhenSilent` is neither zero nor out of reach |
| `candles` | Animations and colours under mixed updates and deletion, leases | Two controllers, so that the sizes of message and record agree and disagree; one channel and one slot, so that a colour is left out, dark or lit and an animation is there or not; 2 heartbeats |
| `imus` | Skipping and retrying the mount pose | IMU 0, whose default configuration equals the made-up one, and IMU 1; two poses; the real 3 retries; 2 heartbeats |
| `imu_timeout_doc` | The "5s timeout" of `CKIMUManager.hpp:39` | One IMU, the real 250 heartbeats. Violated: nobody counts them |
| `swerve` | Holding at the take-over, pushing as asked, getting the motors | One wheel (the wheels share nothing but the stick); the sensor at 0, a half and one and a quarter turns, headings 0 and 180: each heading is reached forwards, backwards and from the 90 degrees where rounding decides. A lease of 1 tick: the object may go at every heartbeat |
| `swerve_takeover_doc` | "prevent the wheels from turning back to 0" (`SwerveDrivetrainFailover.cpp:13`) | As above. Violated: a wheel without a motor object at the take-over is sent to 0 |

Each property is broken by the changed definition which `PROJECT.json` pairs it
with; these definitions (a dropped reset, an off-by-one, a wrong comparison)
stand before the ones they change and are used nowhere.

Counters that only properties read stop at a bound (`silence`, `age`
at the time-out, `staleApplied` at 3, `rtTimer` one past the period); `MaxTime`,
`MaxInFlight` and `MaxLag` are the other bounds. Deadlock is checked except in
the two scheduler runs, where the clock stands still at its bound and the
program may have ended.

### Fairness

- `ControlHandoff`: weak for the main loop (called back every period) and for a
  task that has begun; strong for each task, since the scheduler thread keeps
  returning to "between two tasks" and runs every task that is due
  (`TaskScheduler`'s `CatchesUp`). Nothing for datagrams or the driver station.
  The pump loops while datagrams arrive, so a flood starves the other tasks: the
  two properties that need the pump to end say so in their premise.
- `MotorRegistry`: weak inside a task, strong for the heartbeat task. Senders
  owe nothing; a property that needs messages says so.
- `TaskScheduler`: weak for the two threads. Time need not pass.
- `Solenoids`: weak for time and for the heartbeat task.
- `IMURegistry`: weak for the heartbeat task. Messages and successful writes are
  premises of the property.
- `SwerveFailover`: weak for the main loop; strong for placing the configuration
  (every 25th call, while external control may come and go) and for the two
  motor tasks, which the scheduler runs again and again. Nothing for the
  heartbeat, the external controller or the wheels.

### What the code does otherwise than its comments say

- The external controller is given up after 50 heartbeats of 20 ms, which is 1 s
  and not the 500 ms of the comment (`handoff_timeout_doc`).
- Due times count from zero on the FPGA clock, so after start, and after a
  stall, a task runs once per pass without pause until it has caught up:
  time-outs counted in its ticks then take much less than ticks times 20 ms
  (`scheduler_tick_doc`).
- `ProcessHeartbeatTask` does not call `CKIMUManager`: the 5 s after which an
  unused IMU should be deleted never pass (`imu_timeout_doc`).
- The swerve drive starts failover at the measured angles "to prevent the wheels
  from turning back to 0". It does so for the steering motors that have an
  object at that moment (`HeldAtTakeover`, proved). The others start from 0, and
  failover's own messages create their objects a moment later; and a connected
  stick that is centred sends all wheels to the heading it asked for last, 0 at
  first (`swerve_takeover_doc`).

Limits of what holds are in the properties themselves: a motor field that goes
back to its protobuf default is not rewritten by a differential update
(`HardwareAsConfigured` and `ConfiguredEventually` exclude it); a write that failed at every retry counts
as applied; a message that failed to parse may hide an equal good one until the
mandatory update, and a solenoid that it lists again after a long silence may be
deleted meanwhile (`ValvesAsCommanded`, `DeletedOnlyWhenSilent`,
`CommandedComesBack`); two commands of failover may reach the motors after its
reset, one that the motor task has in hand and one placed since
(`AtMostTwoStaleCommands`); a task that keeps
throwing starves those listed after it (`CatchesUp`); an LED update by difference
does not notice what is no longer in a message (`AnimationsRecorded`,
`ShowsWhatIsRecorded`); a pose written at the last try is not taken for written
(`PoseAsRecorded`).

## 5. What is proved

All theorems hold for every value of the constants that satisfies the module's
named assumptions (`HandoffAssumption`, `RegistryAssumption`,
`SchedulerAssumption`, `SolenoidAssumption` and `IdAssumption`,
`CANdleAssumption`, `IMUAssumption`, `SwerveAssumption`). Each proof module defines an
inductive invariant `IInv`, proves that it holds initially and is preserved by
every action, and derives the theorems from it.

### Safety and refinement

- **`ControlHandoffProofs`** (`TypeOK`, `FailoverConsistent`,
  `AtMostTwoStaleCommands`, `ConnectedExactly`; `ConnectionHeldOnLease`).
  `CountdownInv` ties the counter to the silence: their sum is always the
  time-out. `StaleInv` says why two stale commands are the most: after a reset
  nothing places failover messages any more, so a stale command is in the map, in
  the hands of the motor task or has been applied, and the three together are
  never more than two; `TakenInv` says that the task holds a message only between
  getMessage and the motors. The stale command count alone is not inductive. As a lease the
  connection is renewed by the pump and counted down by the heartbeat; every
  other step of the two threads is a stutter.
- **`MotorRegistryProofs`** (`TypeOK`, `RegistriesAgree`, `ConfigurationKnown`,
  `HardwareAsConfigured`, `FollowersFollow`, `DeletedOnTime`,
  `ImplementsHeartbeatLease`; `OrphanedFollowersAge`). Added: heartbeat
  and age of a motor add up to the limit, and a running configuration task finds
  the messages of the motors it has yet to handle. It follows that the size
  comparison which chooses between complete and differential updates may choose
  wrongly without harm to any value other than a default. A follower whose
  master is gone is not renewed by any command and loses a tick with every
  heartbeat.
- **`TaskSchedulerProofs`** (`TypeOK`, `OnSchedule`, `NeverOversleeps`,
  `ImplementsPeriodicTasks`; `NoRunAfterStop`). `PassWakes` says that the wake
  time of a pass is no later than the due times of the tasks already looked at,
  `AlarmWakes` carries it over to the alarm. The refinement maps the clock to
  the abstract clock and counts runs; every other step is a stutter. `StopInv`
  says what each stage of `stop` has switched off, and that a joined thread has
  ended; so no task runs once `stop` has returned, unless `start` is called again.
- **`SolenoidsProofs`** (`TypeOK`, `RegistriesAgree`, `ValvesAsCommanded`,
  `DeletedOnlyWhenSilent`; `SolenoidsHeldOnLeases`, `ChannelsHaveOneId`).
  `HeartbeatInv` relates the two clocks: while the mandatory update is not due,
  a solenoid that the last message applied listed has lost no more heartbeats than
  ticks have passed since, plus the lateness; a message that is not applied comes
  while the update is not due, so that this carries over to every solenoid which
  it lists, except those that are listed anew (`passedOver`). `ChannelsHaveOneId` is about the
  arithmetic on ids: only modules 0 and 1 of a REV hub give two ids to one valve.
- **`CANdlesProofs`** (`TypeOK`, `AnimationsRecorded`, `ShowsWhatIsRecorded`,
  `ImplementsHeartbeatLease`). Added: every object has a lease, and a controller
  that is known to show what it was told has a previous message. It rests on
  deletion keeping the previous message, and on every difference of colour being
  reported unless the colour is left out. In the refinement a message
  for one accepted id renews one lease, a heartbeat is a heartbeat, and the
  start of a task and a refused id are stutters.
- **`IMURegistryProofs`** (`TypeOK`, `PoseAsRecorded`). Inductive together: a record
  changes only with a success, and a success either mounts the pose or is the
  message of a type without an object, which `PoseAsRecorded` does not speak of.
- **`SwerveFailoverProofs`** (`TypeOK`, `HeldAtTakeover`, `PushesAsAsked`;
  `StickTurnsWheelsAQuarter`). Added: while failover is not active the drive
  outputs are zero and no message, in the map or in the motors, counts as
  current; until the stick is read, the set-points and the current messages hold
  the angles of the take-over. `Exact` gives the angle arithmetic: a set-point
  converted back is the heading or its opposite. The nearer of the two is within
  a quarter turn of the measured angle (`NearerHeading`), but as a sensor
  position it lies within half a turn of zero: a wheel that has made turns is
  wound back through them.

### What happens in the end

The proof system cannot reason about ENABLED, so no theorem starts from `WF` or
`SF`. A theorem takes instead what the fairness of the module's specification
comes to once the enabling condition is written out as a state predicate: "the
main loop takes a step again and again", "a task whose message is in the map
again and again is run again and again". Lemmas derive these hypotheses from
the fairness conditions and the enabledness of the actions in question (a
conjunction named `AlwaysEnabled` or `CanRunIsEnabled`). TLC finds that these
conjunctions and all hypotheses hold on the instances of the runs, under the
specification with fairness; they are not properties of a run themselves, being
what fairness means and not what the code promises.

| Theorem | Shows | Hypotheses besides `Spec` |
|---|---|---|
| `DisabledRobotStops` | `DisabledStopsMotors` | `TasksRun` (from `Fairness`: `FairnessRunsTasks`, `FairnessRunsOtherTasks`) |
| `FailoverTakesOver` | a connection that stays lost leads to failover for good: `SilenceLeadsToFailover` after the countdown | `MainRuns` (`FairnessRunsTasks`) |
| `ControlIsHandedBack` | `ConnectionLeadsToHandBack` for each group of the map | `LoopRuns`: `LoopFunc` is called again and again; `TasksRun` |
| `ConfiguredInTheEnd` | `ConfiguredEventually`: the motor holds the setting asked for, not just some recorded message | `TasksReturn`: a task returns, having a step for each of finitely many motors |
| `StopReturnsInTheEnd` | `StopReturns` | `ThreadRuns`, `StopRuns` (`FairnessRunsThreads`), `PassesEnd`: a pass has finitely many tasks, each of which returns or throws |
| `DueTaskRuns` | the next run of a task that is due comes, for every number of runs: one step of `CatchesUp` | `ThreadRuns`, `PassesEnd` |
| `CommandedValveComesBack` | `CommandedComesBack` | `TimerRuns`: the timer passes the mandatory period again and again or is set back again and again |
| `CompressorStopsInTheEnd` | `CompressorStops` | none: messages are a premise of the property |
| `PoseRetriedInTheEnd` | `PoseRetried` | none, for the same reason |
| `FailoverDrivesByItself` | `FailoverGetsItsMotors` | `MainRuns`, `ConfigPlaced`, `TasksRun` (`FairnessRunsThreads`) |

The arguments follow the code. `DueTaskRuns`, for instance: a sleeping thread
set its alarm no later than the due time (`AlarmWakes`), so it can wake; the
pass that it begins reads a clock beyond the due time and has the task ahead of
it (`OnItsWay`); until it gets there nothing but an exception of an earlier task
ends the pass, and there the task is due.

### Only model-checked

- `SilenceLeadsToFailover`, `SilentMotorDeleted`, `FollowerGoesWithMaster`,
  `CatchesUp`: each is an induction over a counter inside a temporal formula,
  which cannot be stated (a rule of induction would have to take a temporal
  formula as its parameter). Their steps are proved, as said above, together
  with `ConnectedExactly` and `DeletedOnTime`, which say when the countdown ends.
- `ConnectionLeadsToHandBack` for all groups at the same time: the same, over the
  set of groups.
- The hypotheses in the table that say that a loop over finitely many things
  ends (`PassesEnd`, `TasksReturn`), that a timer gets on (`TimerRuns`) and that
  the main loop comes round (`LoopRuns`), and the enabledness of the actions:
  checked with TLC outside the runs, for the same reasons.
- The four comments that fail.

Nothing here is recursive; what a recursive definition computes for every input
would also stay with TLC, as it needs induction over data.

## 6. What is not modelled

- Telemetry (`Send*Task`, `RobotDataHelper`), the logger, timers and caches: copies
  and prints; nothing reads them back. Encoder tasks, CAN server, LED patterns,
  `DrivetrainFailover`: commented out or unused.
- Arm, intake and LED failover: constants (motors at zero output, valves off).
- Deletion of an IMU: code that nobody calls.
- Strip type and voltage output of an LED controller: written like a motor's
  settings.
- The content of messages beyond what the properties tell apart, error reports,
  console output.
- Destruction of the singletons at exit, and crashes of the process: nothing is
  persisted, so a restart is `Init`.
- Third-party code (ZeroMQ, protobuf, WPILib, Phoenix): modelled from its use
  where it matters (socket, clock, notifier, failing writes).
- Faults that no order of steps decides: `CKSolenoid.cpp:62` adds a number to a
  string literal, `SendIMUDataTask.cpp:82` serialises with the message's own length as the
  limit of a buffer of 1500 bytes, pointers that are null only because of their
  static storage (`ApplySolenoidValuesTask.hpp:26`,
  `SwerveDrivetrainFailover.hpp:30`), the order in which singletons are destroyed
  (`TaskScheduler.cpp:18`), microseconds handed over as milliseconds to tasks
  which do not read them (`TaskScheduler.cpp:73`).
- Promises nobody made, so that there is nothing to check: a datagram of any group,
  an LED message for instance, keeps the external controller connected while the
  motors go on with their last command; an IMU or LED
  controller that a later message puts on another bus, an infinite output value
  that renews a motor's lease (`ApplyMotorValuesTask.cpp:55`), robot data of two
  rounds in one message (`RobotDataHelper.cpp:42`).
- The components `PROJECT.json` lists as unused on this robot.

By far the most lines under `src/` are vendored: protobuf and ZeroMQ headers and
the libraries under `src/lib`. The repository's own code is some 6600 lines, a
good part of them the bodies of the unused and telemetry components above; what
is not in `map` of the rest is field-by-field copying.
