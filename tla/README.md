# TLA+ models of mc_rtc (egress controller phases and support code)

This directory holds TLA+ models of parts of this repository. Each model is
checked with TLC. The modules are translated from the C++ under `src/`.
`PROJECT.json` maps every definition to the source lines it models. It also
lists the runs, the mutants that show each property can fail, the findings,
and the hazards.

## 1. The system

The repository has eight source files:

| Part | Source | State and operations |
|---|---|---|
| Egress phases | `src/src/mc_control/mc_mr_egress_phases.cpp` | There are twelve `EgressMRPhaseExecution` subclasses. The controller calls the current phase's `run(ctl)` once per control iteration, and each `run()` is a chain of stages guarded by boolean flags. The phases share the controller's state: `ctl.efTask` (re-created with `reset(new ...)`), the QP solver's task set, `ctl.egressContacts`, the contacts passed to `setContacts`, the contact constraint's free degrees of freedom (`addDofContact` / `resetDofContacts`), and the right gripper's opening. |
| Gripper | `include/mc_control/generic_gripper.h` | Header only: opening targets and the current opening. |
| TrajectoryTask | `src/src/mc_tasks/TrajectoryTask.cpp` | B-spline end-effector task. It has solver registration (`inSolver`), joint selectors that remove the task from the solver and re-add it, `dimWeight`, and the time `t` clamped to `duration`. |
| PositionTask | `src/src/mc_tasks/PositionTask.cpp` | Solver registration and the target position. |
| polygon_utils | `src/src/mc_rbdyn/polygon_utils.cpp` | `QuadraticGenerator`, an integer step schedule of an accelerate/cruise/decelerate profile. `planes_from_polygon` turns polygon edges into planes, and `set_planes` adds the planes with non-zero normals to a constraint. |
| KinematicInertialPoseObserver | `src/src/mc_observers/KinematicInertialPoseObserver.cpp` | Estimates the real robot's floating base: roll and pitch from the IMU carried through the real robot's kinematics, yaw from the control robot, and the position that puts the real anchor (between the feet) on the control anchor. `run()` estimates and `updateRobot()` writes the estimate into the real robot. |
| RobotModule | `include/mc_rbdyn/RobotModule.h` | A data description of a robot. |
| ControllerClient | `include/mc_control/ControllerClient.h` | The GUI client that `spec.md` describes: a subscribe socket, a receive thread, a stale-data timeout, a request push socket, and the tree walker and form sub-protocol. Only the header is in the repository; the implementation file is not. |

### How the parts interact

The egress phases drive the QP solver through the shared controller
object. A phase's effect on the next phase passes only through that shared
state. This is why the model keeps the egress as one module rather than
one module per phase. Three kinds of shared state carry these effects:

- the contacts vector, which later phases index with hard-coded positions;
- the end-effector task, which each phase destroys and re-creates;
- the free degrees of freedom.

The controller class `MCEgressMRQPController` that sequences the phases is
not in the repository.

### Hard behaviours of the egress code

- **Order-dependent indexing.**
  - Phases index `egressContacts` with `at(0..3)`, `lfc_index` and
    `rfc_index`. Those positions were fixed for one particular order of
    earlier appends and erases.
  - Phases also dereference or erase `find_if` results without checking
    for `end()`.
- **The end-effector task's lifetime.** `ctl.efTask.reset(new ...)`
  destroys the previous task. The solver must not still hold it, so every
  reset must be preceded by `removeFromSolver`.
- **Free degrees of freedom.** The source itself says a contact must not be
  freed twice between two resets ("NB : When using dof contacts, do !add
  twice !").
- **Termination.**
  - Stages end on convergence, on a contact force held for more than 40
    iterations, or on a timeout counter.
  - `EgressRemoveRightGripperPhase` has no timeout.
  - The wiggle loop's count and parity decide where the wrist ends up.
- **Gripper opening.** The opening grows by 0.005 per iteration and is
  clamped one iteration late, so it can exceed the documented range [0, 1]
  for one iteration (run `gripper_overshoot`).

## 2. Modules

### `EgressMRPhases.tla`: all egress phases

**State.**
- The running phase: `cur`, an index into `order`, the phase sequence.
- `stage`: the number of the phase's flags already set (`started`,
  `done_...`).
- The counters `timeoutIter` (also called `iter_` / `nrIter_`) and
  `forceIter`.
- `wiggles_` and `wiggleDir`. `wiggleDir` is the commanded wrist rotation
  in units of `deg`.
- `percentOpen`, in thousandths.
- The shared controller state:
  - `efTask`: the identity of the object. Each `reset(new ...)` creates a
    new identity.
  - `efBody`
  - `solverTasks`
  - `egressContacts`
  - the phase's `otherContacts`
  - `solverContacts`: the last `setContacts` argument.
  - `dofContacts`: the `addDofContact` calls since the last reset.
  - `fault`: records an `at()` out of range, or a dereference or erase of
    `end()`. These throw or are undefined, so no further step is taken.

**Actions.**
- One action per stage of each phase's `run()`, named
  `<Phase><Stage>`, for example `ReplaceLeftFootRotating` for the
  `done_rotating` block. An action does everything the block does: the
  flag, the counter reset or increment, task removal, reset and addition,
  contact vector edits, `setContacts`, and dof contact changes.
- `StageWait(conv)` is a call in which the current timed stage does not end:
  the counters advance.
- `Run(conv)` is one call of the current phase. `conv` is what the sensors
  and the QP report in that iteration: either convergence or a force above
  the threshold.
- `NextPhase` is the controller moving to the next phase once the current
  one has set all its flags. Only that transition is modelled: the
  controller is not in the repository, and several phases end with
  `//return true;` commented out and only log "can transit".

**Abstractions.**
- Positions, orientations, gains and postures are not modelled. No
  property distinguishes them.
- A contact is the pair `<<r1Surface, r2Surface>>`.
- `constr` (the `dynamic_cast` to `ContactConstr`) is assumed non-null.
- The timeouts keep their seconds-per-stage table. The 500 iterations per
  second are the constant `TimeoutUnit`, and the force count 40 is
  `ForceIterN`.

### `MC_EgressMRPhases.tla`

Defines the phase orders and the seated starting contacts used by the
configurations. `PhaseOrders` is a set: the phase sequence is the variable
`order`, which is chosen in `Init` and never changes, so the run
`egress` checks the three egresses (`EgressOrders`) at once. The definitions:

- `SeatedContacts`: the left sole on the platform, the buttocks on the
  seat, and the right gripper on the wheel bar.
- `LazySusanOrder`: `Start`, `RotateLazy`, `ReplaceLeftFoot`,
  `PutDownRightFoot`, `Standup`, `MoveComForce(LFullSole)`,
  `MoveComSurf(LFullSole)`, `CenterCom`, `ReplaceRightHand`.
- `RightFootOrder`: `Start`, `RotateLazy`, `ReplaceLeftFoot`,
  `ReplaceRightFoot`, `PlaceRightFoot`.
- `GripperOrder`: `Start`, `OpenRightGripper`,
  `RemoveRightGripper(maxWiggles 2)`, `ReplaceRightHand`.

### `TrajectoryTask.tla`

- **State.** `inSolver`, the set `solver` of task objects the QP solver
  holds, and `traj`, the identity of the object `transTrajTask` points to.
  Each `make_shared` creates a new identity.
- Also: the weight that object uses (`trajWeight`), `dimWeight_`, the
  selector, `t`, and `target` (the time at which `update()` last sampled
  the trajectory).
- **Actions.** One per method: `addToSolver`, `removeFromSolver`, `update`,
  `selectActiveJoints`, `selectUnactiveJoints`, `resetJointsSelector` and
  `dimWeight(w)`.
- The three selector methods share one body, `RebuildTrajTask(sel)`: remove
  if in the solver, rebuild with `dimWeight_`, and put back.
- Times are integers in units of the step's granularity (`Duration`,
  `TimeStep`). `std::min` is the clamp.

### `PlanesFromPolygon.tla`

- The loop of `planes_from_polygon` is one action per iteration
  (`CastPolygon`, `LoopStep`, `LoopExit`), followed by `set_planes`.
- The loop bound `seq->size() - 1` is computed in `size_t`: `LastIdx` takes
  it modulo `SizeTMod` (2^16 in the runs, a reduced width). For an empty
  ring it wraps, and the first iteration reads `getAt(0)` and
  `getAt(size - 1)` past the sequence. That is `ReadPastRing`, after which
  the behaviour is undefined and nothing more is modelled (`pc` is
  `"fault"`).
- `PlaneAt(r, k)` is the plane one iteration computes.
- Normals are kept unnormalised. Dividing the normal and the offset by the
  norm describes the same half-plane, and a zero normal stays zero, which
  is what `set_planes`' `norm > 0.5` test tells apart.
- `MC_PlanesFromPolygon` enumerates every convex triangle and
  quadrilateral on a 3x3 grid, in both orientations, each closed as geos
  closes a ring. It also includes one geometry that is not a polygon, and
  `planes_support` adds the empty polygon (`POLYGON EMPTY`).

### `QuadraticGenerator.tla`

- The constructor is `Init`, including the rounding of `nrSteps` up to a
  multiple of `proportion`. `next()` is `next`.
- The doubles are replaced by exact integers. Every sample is multiplied by
  `2(p-1)N`, which makes each piece of the profile an integer.
- `speedOut` is not modelled.

### `ClientTransport.tla`, `ClientSession.tla` (refinement)

- **Two threads.**
  - The caller's thread runs `start`, `SetTimeout`, `send_request`, and the
    destruction: `DestroySubclass` (C++ runs the subclass's destructor
    first), then the base destructor's three steps, `Stop`
    (`run_ = false`), `Join` and `Close`.
  - The receive thread runs `RtCheck` (`while(run_)`), `RtReceive` (a
    frame, walked or dropped when it does not decode), `RtTimeout` (the
    stale signal, an empty document), `RtWake` (stop wakes the blocked
    receive) and `RtWalk` (`handle_gui_state` between `started()` and
    `stopped()`).
- **Environment.** The server runs `Publish`; the SUB socket drops frames
  beyond `QueueCap`. `Tick` counts time while the thread waits.
- **Modelled from the spec.** The loop and the destructor follow
  `spec.md` 4.1 and 5 because the implementation file is absent.
  `PROJECT.json` marks those definitions `spec_modelled`.
- **The `run_` race.** `run_` is a plain `bool` (header line 361), a data
  race between the two threads. The loop body calls `nn_recv` and the
  virtual handlers, which the compiler cannot see through, so `run_` is
  loaded again on every pass; `RtCheck` reads it once per iteration.
- **Refinement.** `ClientSession` is the abstract promise: created,
  listening, closing, closed. Sent documents wait in a FIFO `pending`
  channel (a full socket may lose one, a stuttering step), and `Deliver`
  hands the oldest to the handlers, only while listening or while `stop()`
  waits for the receive thread, never once closed; a close that has begun
  completes. `ClientTransport` maps `phase` from the caller's state
  (`destroying` is still listening: `stop()` has not begun), `pending`
  from the frame being walked followed by the decodable frames in the SUB
  queue, and `delivered` from the frames walked. `SessionRefined` checks
  `Session!Spec` as a property; the mutant `RtReceiveLifo`, a socket that
  hands over the newest frame, breaks it.

### `KinematicInertialPoseObserver.tla`

- **State.** The control robot's `posW` and soles, the real robot's `posW`,
  soles and IMU mount, the real base's actual orientation `trueBase` (what
  the IMU reads through its mount), the members `orientation_` and
  `position_`, and `fresh` (no reading changed since the last `run()`).
- **Actions.** `run` (`estimateOrientation` then `estimatePosition`),
  `updateRobot` (`posW` of the real robot becomes the estimate), and `Move`:
  the environment turns the real base, moves the control base, or changes
  the joints (soles, IMU mount). `Move` is bounded by `MaxMoves`.
- **Arithmetic.** Orientations are the 24 rotations that map axes to axes,
  as exact integer matrices: roll, pitch and yaw are multiples of 90
  degrees, so the gimbal lock (pitch of +-90 degrees) is among the cases.
  Products, inverses and `rpyToMat`/`rpyFromMat` follow SpaceVecAlg and
  `mc_rbdyn` conventions: those libraries are not in the repository, and
  `Robot::bodyPosW` is taken as the body's pose in the base frame composed
  with `posW`. The anchor is the midpoint of the soles (`leftFootRatio_`
  0.5), and the soles are placed so that it is an integer vector.
- The logger entries are not modelled.

### `TreeWalker.tla`

- One GUI document is walked with a stack of pending items, so each
  callback is one step: `WalkCategory`, `WalkLeaf`, `WalkField` and
  `SkipMalformed` (a `"GUI"` entry that is not an object).
- The walk itself (`handle_gui_state`, `handle_category`, `handle_widget`)
  is declared in the header and implemented in the absent `.cpp`, so these
  actions follow `spec.md` 4.2 and are marked `spec_modelled`; only the
  virtuals they call are translated from the header.
- `Dispatch` and `FieldDispatch` are the header's virtuals:
  - a widget kind that is not overridden runs `default_impl(kind, id)`;
  - a form field kind that is not overridden runs an empty body.
- `NodeCalls`/`CallsOf` is a RECURSIVE reference of the pre-order walk of
  `spec.md` 4.2.

## 3. Properties and runs

| Run | Config | Expect | Properties |
|---|---|---|---|
| egress | `Egress.cfg` | pass | TypeOK, NoContactFault, NoStaleEfTask, FreedContactOnMovedLimb, WiggleEnvelope, EgressCompletes, EgressCompletesIfConverging |
| gripper_overshoot | `EgressGripperOvershoot.cfg` | violation | GripperOpeningInRange |
| right_foot_dof | `EgressRightFootDof.cfg` | violation | DofContactAddedOnce |
| trajectory_solver | `TrajectoryTaskSolver.cfg` | pass | TypeOK, SolverHoldsLiveTask, TargetReachesEnd |
| trajectory_weight | `TrajectoryTaskWeight.cfg` | violation | WeightPersists |
| planes_support | `PlanesSupport.cfg` | pass | TypeOK, ConstraintPlanesSupport, ReadsWithinRingUnlessEmpty |
| planes_every_edge | `PlanesEveryEdge.cfg` | violation | EveryEdgeConstrained |
| quadratic_profile | `QuadraticProfile.cfg` | pass | TypeOK, ReachesEnd, Monotone |
| client_transport | `ClientTransport.cfg` | pass | TypeOK, StopTerminates, FramesKeepFlowing, WaitEnds, SessionRefined |
| client_destroy | `ClientTransportDestroy.cfg` | violation | NoHandlerAfterDestruction |
| walker_order | `TreeWalkerOrder.cfg` | pass | WalkInPreOrder |
| observer_estimate | `ObserverEstimate.cfg` | pass | EstimateKeepsImuTilt, AnchorsCoincide |

The properties:

- **NoContactFault.** No phase indexes `egressContacts` out of range or uses
  a failed `find_if`. The property depends on the whole history of appends
  and erases by the earlier phases.
- **NoStaleEfTask.** Every end-effector task registered in the solver is
  the live `ctl.efTask`.
- **FreedContactOnMovedLimb.** Every contact given a free degree of
  freedom belongs to the body the live end-effector task moves. This checks
  that the hard-coded `lfc_index` and `rfc_index` still designate the
  lifted foot.
- **EgressCompletes** (liveness, under `Spec`). The last phase reaches its
  end, or the egress stays for ever in a convergence-only stage of
  `RemoveRightGripper` (`ConvergenceOnly`): every other stage ends by
  timeout or force alone.
- **EgressCompletesIfConverging.** If converging iterations come
  infinitely often (`SF_vars(Run(TRUE))`), the last phase reaches its end.
  The assumption is the antecedent of the property, not a fairness of
  `Spec`.
- **GripperOpeningInRange** is violated (`gripper_overshoot`).
  `EgressOpenRightGripperPhase` adds 0.005 while the opening is below 1 and
  clamps it to 1 only on the next iteration (line 898). From 0.997 it
  commands 1.002 for one iteration, outside the range [0, 1] that
  `generic_gripper.h:69` documents. Double-precision accumulation of 0.005
  may land just below 1 and overshoot in the same way; floating point is
  not modelled.
- **WiggleEnvelope.**
  - While the wrist wiggles, its rotation is `+deg` or `-deg`.
  - The rotation stage ends after `maxWiggles_ + 1` wiggles.
  - Because the last command repeats the previous direction, the wrist is
    lifted out turned by `3*deg`. This is what the code does, and it is
    recorded as a hazard.
- **DofContactAddedOnce** is violated. `EgressReplaceRightFootPhase` frees
  `at(rfc_index)` at start (line 596) and again at `done_rotating` (line
  717), with no reset in between. This goes against the rule the source
  states in the comments at lines 349 and 519.

TrajectoryTask, polygon_utils and ControllerClient:

- **SolverHoldsLiveTask.** The solver holds only the live
  `transTrajTask`, and `inSolver` says whether it does. The selector
  rebuilds destroy the old object, and only their remove/put-back keeps the
  solver's raw pointer valid.
- **TargetReachesEnd** (liveness). With `update()` called every iteration,
  the target is eventually sampled at the end time.
  - The target lags `t` by one step, so it gets there one call after
    `timeElapsed()`.
- **WeightPersists** is violated. `dimWeight()` does not store `dimWeight_`
  (line 177), so the next selector rebuild restores the constructor's
  weights.
- **ConstraintPlanesSupport.** Every plane put in the CoM constraint is a
  supporting line of the polygon: all vertices are on one side.
- **ReadsWithinRingUnlessEmpty.** The loop reads past the coordinate
  sequence only for a ring with no coordinates. The run reaches that read
  from the empty polygon, and nothing in the code rejects that input. Every
  closed ring is read within bounds, which depends on the `i == 0` case
  of `prev`.
- **EveryEdgeConstrained** is violated. The plane for `i = 0` is built from
  point 0 and its closing duplicate, so it has a zero normal and is
  skipped. The loop stops one point early, so the edge from the last vertex
  back to the first is never bounded.
  - Example: on the triangle (0,0), (0,1), (1,0), only two planes are
    added.
- **Monotone** (an action property) and **ReachesEnd.** `percentOut` never
  decreases, including across the joints at `t1` and `t2`. Once `current`
  passes `nrSteps_`, the output is exactly the end.
- **StopTerminates.** A destruction that has begun completes.
  - The pass run holds because `stop` wakes the blocking receive. That is
    needed: the default timeout is 0, so the receive has no timeout.
- **FramesKeepFlowing.** After `start()`, every queued frame is
  eventually consumed while `run_` holds. A frame that does not decode does
  not stop the loop.
- **WaitEnds.** With a positive timeout the receive thread never waits for
  ever: a frame or the stale signal comes.
- **SessionRefined.** The transport implements `ClientSession`: the
  decodable frames reach the handlers in the order the server published
  them, possibly with losses, never reordered or repeated, and never once
  the client is closed.
- **NoHandlerAfterDestruction** is violated (`client_destroy`). `spec.md`
  section 5 says no handler invocation outlives `stop()`. The header stops
  the thread only in `~ControllerClient`, which C++ runs after the
  subclass's destructor (line 56). A frame received just before the
  destruction is walked afterwards, calling `category()`, the widget
  handlers and `stopped()` on a destroyed subclass, or the pure virtual
  `category()`. A subclass cannot fix this by joining in its own
  destructor: `sub_th_` is then joined twice by the base.
- **EstimateKeepsImuTilt.** After `run()` on the current readings, the
  world's vertical has the same coordinates in the estimated base frame as
  in the actual one: roll and pitch come from the IMU through the
  kinematics. This also holds at the gimbal lock, where `rpyFromMat` cannot
  tell roll from yaw and the yaw is replaced by the control robot's.
- **AnchorsCoincide.** After `run()` and `updateRobot()` on the current
  readings, the real robot's anchor is where the control robot's is. This
  depends on `estimatePosition` using the orientation just estimated.
- **WalkInPreOrder.** At every step the calls made are a prefix of the
  recursive reference walk, and the whole of it at the end.
- Not checked, but recorded as a hazard: the `form_*` defaults are empty
  bodies, so an unhandled field kind leaves no diagnostic. This goes
  against the "no-op-plus-warning default" of `spec.md` 4.3. It changes no
  state of the walk.

Each property of a passing run has a mutant, a
plausible bug of the code that TLC finds:
- a missing `removeFromSolver`;
- an off-by-one `lfc_index` or `rfc_index`;
- a dropped `push_back`;
- a missing `timeoutIter++`;
- a missing `done_...` flag;
- swapped `birot` and `birot.inv()`;
- a phase that keeps the previous phase's flags;
- a gripper clamp one step late;
- the IMU-to-base transform composed the other way round;
- `estimatePosition` run before `estimateOrientation`.

### Bounds

- `TimeoutUnit = 1` and `ForceIterN = 2`. A stage can then end by
  convergence, by force, or by timeout, with 10 to 30 iterations per stage.
  Every ordering of these three outcomes is reached, and the counters stay
  small.
- `OpenStep = 5` and `OpenFull = 1000` (thousandths) keep the code's ratio.
  Initial openings 0 and 0.5 (multiples of the step) in `egress`; 0.997
  (not one) in `gripper_overshoot`.
- `MaxIdleIter = 3` bounds `PlaceRightFoot`'s counter, which keeps growing
  after the phase is done.
- `maxWiggles = 2`, so the wrist makes three wiggles and both parities
  occur.
- **TrajectoryTask.**
  - `Duration = 5` and `TimeStep = 2`, so the last step is clamped.
  - `MaxRebuilds = 4` allows three rebuilds, enough for a rebuild both
    inside and outside the solver, after a `dimWeight`.
- **Polygons.** Every convex polygon of 3 or 4 vertices on a 3x3 grid, in
  either orientation.
- **QuadraticGenerator.**
  - `nrSteps` from 1 to 12 and `proportion` 2, 3 or 4. This covers both
    rounded and unrounded step counts, and pieces of length 0.
  - `ExtraCalls = 1` checks a call after the end.
- **ClientTransport.**
  - Four frames (two documents and a malformed frame), and a queue of 2,
    so a frame can be dropped and frames still arrive after a drop.
  - Constructor timeouts 0 (no timeout) and 2 ticks. `timeout(-1)` is
    ignored, and `timeout(1)` changes the timeout.
  - One request.
  - Both threads interleave freely.
- **KinematicInertialPoseObserver.** All 24 axis-aligned true base
  orientations; five control poses (four yaws and a roll of 90 degrees);
  two sole placements (level, and one foot forward); two IMU mounts; at
  most two moves. That is 328544 states, about a minute.
- **TreeWalker.** A `Status` category with up to two distinct items: a
  label, a button, a form with two fields, a malformed entry, a
  subcategory, or a subcategory that holds a further category (a form and
  a malformed entry) before a sibling button. It appears alone, or with a
  following `Ctrl` category. There is also the empty stale document: 75
  documents in all.

### Fairness

The control loop calls `run()` every iteration, and the controller moves on
when a phase is over. So `Run(FALSE)` (an iteration that needs nothing from
the robot) and `NextPhase` are weakly fair. Convergence is not assumed in
`Spec`: every timed stage times out. The gripper removal stages have no
timeout, so `EgressCompletes` allows staying in them, and
`EgressCompletesIfConverging` states convergence infinitely often as the
antecedent of its implication. That is a physical assumption, stated as
one.

- **TrajectoryTask.** `update` is weakly fair, because the controller calls
  `update()` every iteration while the task is used.
- **ClientTransport.**
  - The receive thread's steps and `Tick` (time passes) are weakly fair, as
    are the base destructor's `Stop`, `Join` and `Close`, since a
    destruction that has begun goes on.
  - Neither the server's `Publish` nor the caller's `start` or
    `DestroySubclass` is fair.
    So `FramesKeepFlowing` only asks for progress after `start()`, and
    only while `run_` holds.
- **TreeWalker.** `Next` is weakly fair: the walk is a plain recursive
  function call.
- **polygon_utils and the observer.** No fairness. The runs check safety
  only. The observer's run has no deadlock: `run` is always enabled.

### Deadlock

The configurations set `CHECK_DEADLOCK FALSE` because the last phase
really does stop: once all its flags are set, `run()` returns false
forever. `EgressCompletes` is what rules out a premature stop.

The other modules stop just as really:
- a trajectory whose rebuilds are used up, and whose time has reached
  `Duration`, only stutters;
- `planes_from_polygon` and a walk return;
- `next()` is bounded by `ExtraCalls`;
- a destroyed client does nothing more.

## 4. Not modelled, and why

- **Floating point.** This covers the wrenches, norms, the
  `QuadraticGenerator` doubles (`speedOut` in particular), and the
  observer's orientations other than the 24 axis-aligned ones. In the
  observer, `asin` of a rounded `E(0,2)` just above 1 gives NaN; exact
  matrices cannot show it.
  - `QuadraticGenerator` with `proportion` 0 or 1 divides by zero in its
    constructor. It is excluded, not modelled.
  - `nrSteps` 0 gives NaN from the first `next()`, and a zero
    `TrajectoryTask` duration gives NaN targets. Both are unchecked
    constructor inputs that are kept out of the runs.
- **RobotModule.** It is data only.
- **PositionTask.** It has setters that forward to the wrapped QP task and
  logger entries, and no control state of its own. Its logger callbacks
  capture `this`, and so do the observer's. Whether a stale or duplicate
  entry is harmful depends on `mc_rtc::Logger`, which is not in the
  repository. This is recorded as a hazard.
- **The controller class.** It is not in the repository, so the operator
  cannot request the next phase in mid-phase in this model.
- **ControllerClient.**
  - The request encoder and the per-widget geometry extraction only format
    data.
  - The client-local form state machine of `spec.md` 4.5 is "not mandated
    by the wire format", and nothing in the header implements it.
  - The unsynchronised `timeout_` double is read atomically in the model.

## 5. Plan

1. Done: the egress phases,
   TrajectoryTask, polygon_utils (with the `size_t` loop bound), the
   ControllerClient transport (refining `ClientSession`, with the
   destruction order), the tree walker and the pose observer.
2. **Composition.** None is modelled. No two modelled components interact
   in this repository's code: the egress's use of `TrajectoryTask` is
   commented out (line 647), and the client and the controller code do
   not meet.
3. **Open hazards.**
   - The unchecked constructor inputs of `QuadraticGenerator` and
     `TrajectoryTask`.
   - The `timeout_` race.
   - The empty `form_*` defaults.
   - The logger callbacks.
   Each needs either a violation run of its own or code that is not in the
   repository (the project keeps at most twelve runs).
