# TLA+ models of lxdyn

lxdyn is a fork of xdyn, a simulator of ships and floating bodies in six
degrees of freedom. This directory holds TLA+ models of the parts of it that keep state
over time or are shared between callers, the TLC configurations that check them, and
proofs for the TLA+ proof system. Paths below are relative to `src/xdyn/`.

## 1. The system

### 1.1 Components

| Component | Where | State | Operations |
|---|---|---|---|
| `History` | `hdb_interpolators/History.cpp` | the points of a sliding window `L`, `Tmax`, `oldest_recorded_instant` | `record`, `reset`, `operator()`, `average`, `get_values` |
| `BodyStates`, `State` | `core/BodyStates.cpp`, `core/State.cpp` | thirteen `History`s recorded in lock-step | copies of ranges, Euler angles |
| `Body` | `core/Body.cpp` | its states, mesh intersection, blocked degrees of freedom | `update`, `set_history`, `reset_history`, `calculate_state_derivatives` |
| `ForceModel` and about forty subclasses | `core/ForceModel.cpp`, `force_models/` | a cached force, the latest force | `operator()`, `feed` |
| `Sim` | `core/Sim.cpp` | bodies, forces, environment, the command listener, `state`, latest derivatives and sums of forces | `dx_dt`, `output`, `set_bodystates`, `set_command_listener`, `force_states` |
| `Observer` and its formats | `core/Observer.cpp`, `observers_and_api/*Observer.cpp` | serialisers and initialisers of the variables seen | `observe_before_solver_step`, `observe_after_solver_step` |
| Controllers | `listeners_and_controllers/` | PID: integral, previous error and date; CSV: the reader; gRPC: the remote controller | `update_discrete_states`, `get_date_of_next_update` |
| `CSVLineByLineReader` | `listeners_and_controllers/` | the stream, the index `date2position`, the lines `current` and `next` | `get_values`, `get_next_date`, `eof` |
| `XdynForME`, `XdynForCS` | `observers_and_api/` | a `Sim` (and a time step and solver for CS) | `handle(request)` |
| gRPC and JSON servers | `cli/` | an `XdynFor..`, an `ErrorReporter` | one handler for each call |
| `ErrorReporter` | `cli/ErrorReporter.cpp` | status and message | `run_and_report_errors`, `reset` |
| Remote models | `grpc/` | a stub, what `set_parameters` answered | calls for forces, waves, commands |
| FMI interface | `fmi/` | a `Sim`, a date, command names | the functions of FMI 1.0 for model exchange |
| `BlockedDOF`, `StatesFilter` | `core/` | interpolators; filters | `force_states`, `get_filtered_states` |
| `Mesh`, `MeshBuilder` | `mesh/` | nodes, edges, facets, the static part and what the last cut appended | `build`, `add_edge`, `add_vertex`, `create_facet_from_edges`, `reset_dynamic_data` |
| `MeshIntersector`, `ClosingFacetComputer` | `mesh/` | immersions, emerged, immersed and closing facets, edges on the surface | `update_intersection_with_free_surface`, volumes and centres of mass, which build the closing facets |
| Environment, hydrostatics, GZ curves, databases, parsers, HDF5, command lines | remaining directories | read once, or functions of their arguments | |

The ODE solver, its scheduler, `DiscreteSystem`, `DataSource`, the websocket and JSON
code belong to the `ssc` library, which is not in this repository; they are modelled from
how this code uses them and marked external.

### 1.2 How they interact

* The solver calls `Sim::dx_dt` at each of its stages. It makes each body record its
  states (`Body::update`), evaluates the forces, which read the histories, the commands in
  the command listener and the environment, and computes the derivatives.
* Between steps the scheduler calls the controllers that are due. A controller reads
  states and set points and writes commands into the command listener; it then gives the
  date of its next call. A date that is not after the current one means "no more calls".
* Observers are called before and after each step and read `Sim::output`.
* A model-exchange call replaces the history and the commands of the simulator by those of
  the request, evaluates the derivatives once, reads the requested observations and answers.
  A co-simulation call does the same and integrates over `Dt`.
* Handlers run inside `ErrorReporter::run_and_report_errors`, which resets the reporter,
  and turns an exception into a status.

### 1.3 What is hard

* **Sliding window.** Repeated dates (stages at the same instant, correctors), dates that
  do not divide the window, resets, a front point that has to be interpolated.
* **Sharing.** gRPC runs handlers in a pool of threads, while the simulator and reporter
  behind them are one object. A call also leaves the simulator changed when it fails halfway.
* **Scheduling on doubles.** Dates of calls are sums and differences of doubles that are
  later compared for order.
* **Lazy reading.** The CSV reader indexes lines when first read and seeks back to them; a
  date is checked when it is first read, possibly in the middle of a simulation.
* **A time loop per call.** Every stage of a solver is recorded in the history that the next
  one reads; stages that are not in order of date; exceptions in the middle of a step.
* **Cutting a mesh.** Facets that share edges are split one after the other, each from its
  own side; nodes, edges and facets exactly on the surface; the pieces of the last cut are
  behind the static ones; contours are walked from two places and must agree.
* **Remote models** without deadlines.

What each component has to guarantee:

* *History*: sorted dates; the window starts where it should; no recent sample is lost or
  duplicated; a query returns the signal at that date; an average covers its interval once.
* *CSV reader and controller*: the line that covers the date; a next date that is the next
  line; every line is applied, on time, and the commands never freeze.
* *Model exchange and co-simulation*: an answer depends on its request alone; a call fails
  only by its own fault; the request's dates are those of the evaluation.
* *Time loop of a co-simulation*: it ends; what the forces read of the past at the dates
  between steps are the states that are answered; a failed step leaves nothing behind.
* *Mesh*: split facets are on their side of the surface, neighbours still meet, and what is
  open is closed by the closing facets; a cut does not depend on earlier ones.
* *Observers, FMI, blocked states*: what is serialised or read is what was asked for.

The hazards behind these, each at its line with the properties that watch it, are listed
in `PROJECT.json`.

## 2. Modules

| Module | Models | Depends on |
|---|---|---|
| `Bracketing` | what a bisection over dated points returns | |
| `BracketSearch` | the loop of `History::find_braketing_position`, one action per pass | `Bracketing` |
| `History` | `History`: `record` and `reset` as actions, queries and averages as operators | `Bracketing` |
| `CSVLineByLineReader` | the reader: `get_values(t)` as one action, the exception as another | |
| `CSVController` | the controller and the reader on the scheduler | `CSVLineByLineReader` |
| `RequestResponse` | abstract: what clients of a server may count on | |
| `BodyHistory` | what the servers do with the past of a body | |
| `ModelExchange` | a model-exchange call, step by step, over the shared simulator; implements `RequestResponse` | `BodyHistory`, `RequestResponse` |
| `CoSimulation` | a co-simulation call with its time loop and solver stages; implements `RequestResponse` | `BodyHistory`, `RequestResponse` |
| `Mesh` | the mesh and what a cut appends to it | |
| `MeshBuilder` | from facets given by their corners to shared nodes and edges | `Mesh` |
| `ClosingFacetComputer` | connected edges, and one step of a walk along them | `Mesh` |
| `MeshIntersector` | cutting a mesh, and the closing facets | `MeshBuilder`, `ClosingFacetComputer` |
| `LeastNatural` | lemmas: least and greatest elements of sets of integers, induction up to a number | |
| `BracketSearchProofs`, `HistoryProofs`, `ModelExchangeProofs`, `CoSimulationProofs`, `MeshBuilderProofs`, `MeshIntersectorProofs` | theorems and proofs about the module they are named after; `MeshBuilderProofs` also has the lemmas about `Mesh` and `ClosingFacetComputer` | |
| `CSVControllerProofs` | theorems and proofs about the reader, then about the controller | |
| `MC*` | instances for TLC | |

### 2.1 Correspondence with the code

**History.** `L` is the deque of points, oldest first. Dates are integers, and two dates
that `almost_equal` calls equal are one. A stored value is abstracted to the set of samples
it was computed from: a recorded value is one sample, a point on a segment joins the samples
of both ends. This keeps the only thing the properties need, where a value comes from, and
makes every wrong choice of interval visible. `record` is the whole function: the check
that dates do not go back (it throws and changes nothing), the update of the oldest instant,
the insertion or replacement, and the trimming with its re-inserted front. `log` is a
history variable with every sample since the last reset. `History` uses the result of the
bisection; `BracketSearch` shows that the loop computes it.

**CSV reader.** The file is the sequence of its dates and the values of a line are its
number. `get_values` is `set_read_position` with all its reads: the loop that reads the rest
of the file once the date reaches the next line, the search in the index, the seek, the two
lines read, the date fixed at the end of the file. `refuse` is the exception in that loop.

**CSV controller.** `callback` is `DiscreteSystem::callback`: the update and then the
schedule of the next call. `advance` is the solver: it may step to any later date, but never
past a call that is due. `fl` rounds each sum and difference of doubles, in the order the
code computes them.

**Model exchange.** One action for each use of the shared objects, in the order of the
code: `call` (reset of the reporter), `decode` (size checks or deserialisation, histories
built), `set_bodystates`, `set_command_listener`, `update` (NaN check, record),
`sum_of_forces` (commands and history read), `observe` (the outputs requested, refused here if
one of them is not computed), `return` (status read). A requested output stands for what the
simulator reads it from; `Outputs` are those it computes. `Grpc` tells
the two servers apart: interleaved handlers and dates dropped by `from_grpc`, or one message
at a time. The thirteen histories are recorded together and are one function from dates to
states here; the dates of a request span less than `Tmax`, so that nothing is trimmed.
Derivatives are a record of what they were computed from. The body has no mesh: with one,
a NaN is refused earlier, with another status.

**Request and response.** A server is seen as `Ask` and `Answer` of `RequestResponse` with
`asked` a client's request while its handler runs, and `answer` the last response.
`Served(request, answer)` is what an answer may be: the evaluation (or the run) computed from
the request alone, or an error without data when the request is at fault. Whatever the
simulator keeps between calls is hidden by the mapping, so that a step that lets it show is
not a step of `RequestResponse`. Requests that leave a command out are let through with any
answer, since the code keeps the last value of such a command on purpose.

**Co-simulation.** `decode` is the reading of the message and the check of `Dt`;
`set_bodystates` and `set_command_listener` are the assignments of `XdynForCS::handle`, the
unknown solver included, which is only noticed after them (the
executable checks the name before it starts; an `XdynForCS` can be constructed with any); `initialize` is the evaluation
before the first observation; `observe`, `stage` and `step` are the loop that `simulate`
runs. `dx_dt` is `Sim::dx_dt`: NaN check, record, forces, state. The dates of the stages and
the end of a step are those of the `ssc` solvers (external): one date for `euler`, four for
`rk4`, six for `rkck`, the last of which goes back, so that `History::record` throws in the
first step. The error control of `rkck` is left out: no such step ends. `Integrated` is any
function from a state and the evaluations of a step to a state; an evaluation holds the
whole history it was made with.

**Mesh.** Nodes, edges and facets are numbered from 1 and appended in the order of the code.
A position of the hull is the sign of the immersion of each node, which decides every
branch of the cut. The four status bits of an edge are two sets of ends. `update` is
`update_intersection_with_free_surface` as a whole; `refuse` is its exception, which leaves
the new immersions with the old facets. The closing facets are built later, on demand:
`build_closing_edge`, then `take_component`, two walks (`start_contour`, `follow`) and
`close_contour` for each component, in any order (the code's order follows the numbering).
Where angles and coordinates decide (the edge a walk starts from, which of several next
edges it takes, the final direction) every choice is allowed.

Operators named `<definition>_<fault>` are seeded faults: put in the place of a definition
they make a property fail, which shows that the property constrains the code. No
specification uses them.

## 3. What the runs check

| Run | Result | Shows |
|---|---|---|
| `bracket_search` | holds | the bisection stays within the list, returns the first point at or after the date, and ends |
| `history_any` | holds | any steps, repeated dates, resets: sorted dates, start of the window, no sample lost, averages tile the window; on a grid that divides `Tmax` every query is answered from the samples around its date |
| `history_front` | violated | a step that does not divide `Tmax`: the front of the window is extrapolated |
| `csv_reader` | holds | any order of requests: the line that covers the date, and the date of the next line |
| `csv_reader_dates` | violated | a repeated date is accepted |
| `csv_controller` | holds | exact arithmetic: commands follow the file, no early stop, every line is applied |
| `csv_controller_rounded` | violated | rounded arithmetic: the commands freeze |
| `me_json` | holds | one call at a time: the server implements `RequestResponse`, also after failures |
| `me_grpc` | violated | over gRPC the dates of the states are lost |
| `me_clients` | violated | concurrent gRPC calls mix their states or commands |
| `cosim` | holds | one call at a time, any solver: the server implements `RequestResponse`, and forces read the answered past |
| `mesh` | holds | any cut after any other: facets on their side, no gap between neighbours, closed by the closing facets |

### 3.1 Bounds

* `bracket_search`: all lists of at most six points on even dates and all dates around and
  between them. Six points give three passes of the loop with both roundings of the middle.
* `history_*`: dates -1 to 9, `Tmax` 4 or 3. Among the sequences of `history_any` those on a
  grid of 2 or 4 divide the window. The window fills, is trimmed several times,
  loses one or many points at once, and is reset with a first date before and after zero.
  Steps 0 to 5 go from a repeated date to one longer than the window.
* `csv_reader`: all files of up to four lines with dates 0 to 4 in any order, requests -1 to
  5: empty files, repeated and decreasing dates, requests before, between and after.
* `csv_controller`: all files of up to three lines, simulations that begin before, in and
  after the file, up to date 6. Rounded: doubles of three significant bits and two files; a
  double has 53 bits, and the same happens with 0.2 and a start at 1.
* `me_json`: two clients, one command, histories of one to three states with a NaN,
  repeated and decreasing dates, malformed requests, the command given or left out, and
  outputs that are computed, are not, or are not asked for, so that every exception happens
  before and after every kind of call.
* `cosim`: one to two states in the past at dates 0 to 6, no step (refused) or up to three,
  outputs that exist, do not, or are not asked for, malformed messages, commands given, left
  out or changed, for each solver and an unknown one. Steps of 40 give every stage an integer
  date. There are eight states, one of which is NaN, and what a step gives depends on the
  evaluation, the command and the length of the history, so that NaN turns up within steps
  and anything left by an earlier call would change the answer.
* `mesh`: a tetrahedron in all 81 positions (each node above, on or below the surface) and a
  double pyramid on a triangle, whose middle edges are shared by facets that are cut in
  different ways, in 20 of its positions. Any position, refusal and closing walk may follow
  any other.

`Infinity` (100) stands for the largest double and exceeds all dates. Deadlock is not checked
where the program ends: the bisection returns, a simulation reaches its end or an exception.

### 3.2 Fairness

* `BracketSearch`: weak fairness of the loop, which is one thread that never waits.
* `CSVController`: weak fairness of the callback when it is due and of the solver's step:
  the loop of `quicksolve` alternates both until the end of the simulation.
* `ModelExchange`: weak fairness of the handler of each client (`FairSpec`), and none of
  `call`: a handler waits for nothing, and clients need not call.
* `CoSimulation`: weak fairness of the handler, one thread with a loop, for the same reason.

`MeshIntersector` and `History` have no fairness: they only react.

### 3.3 Findings

* `History.cpp:169`: the value at the window's front is computed with the two oldest points
  before the points around its date are looked up.
* `CSVLineByLineReader.cpp:199`: a repeated date is taken for a line read again, so the check
  of line 201, which says `>=`, never sees equality.
* `CSVController.cpp:117`: shifting a date forth and back does not give it back; the
  controller looks up the line before, and asks for the present date again.
* `ModelExchangeServiceImpl.cpp:37`: `t` is never copied from a gRPC request.
* `ModelExchangeServiceImpl.hpp:45`: handlers share simulator and reporter without a lock.

Smaller disagreements, for which there is no run: `History.hpp` says of the constructor that
older values are forgotten "before defaulting to zero", while the code (and the test
`values_before_oldest_should_be_equal_to_oldest`) answers the oldest value; `Sim.hpp` says
the forced states are in the output, which with several bodies holds for the last one only;
the state after the last step of a co-simulation is not checked for NaN and answered with
status OK; `step` of the gRPC service computes the status of `to_grpc` and ignores it; the
constructor of `ClosingFacetComputer` assigns `ymin` twice and never `ymax`. The command
lines offer `rkck` for co-simulation, whose stages go back in time and make `record` throw:
this rests on the stage dates of the `ssc` library, outside the repository, and is therefore
modelled but not listed as a finding.

## 4. What is proved

All proofs hold for every value of the constants that satisfies the modules' assumptions.

| Theorem | States |
|---|---|
| `BracketSearchProofs!IndicesAreNatural` | `Spec => []TypeOK`: no unsigned index wraps around |
| `BracketSearchProofs!BoundsEncloseTheDate` | `Spec => []LoopInvariant` |
| `BracketSearchProofs!SearchIsCorrect` | `Spec => []ReturnsTheBracket` |
| `HistoryProofs!PointsAreSamples` | `Spec => []TypeOK` |
| `HistoryProofs!DatesIncrease` | `Spec => []StrictlyIncreasing` |
| `HistoryProofs!NothingIsLost` | `Spec => []NoSampleLost` |
| `HistoryProofs!WindowIsExact` | `Spec => []WindowStart` |
| `HistoryProofs!AveragesTile` | `Spec => []AverageTilesTheWindow` |
| `HistoryProofs!QueriesAreFaithful` | `Spec => []QueryIsFaithfulOnAGrid` |
| `CSVControllerProofs!IndexPointsAtItsDates` | `Spec => []TypeOK` |
| `CSVControllerProofs!AnswersCover` | `Spec => []CurrentLineCoversTheDate` |
| `CSVControllerProofs!AnnouncesTheNextLine` | `Spec => []NextDateIsTheNextLine` |
| `CSVControllerProofs!CommandsFollow` | without rounding, `ControllerSpec => []CommandsFollowTheFile` |
| `CSVControllerProofs!CalledAgain` | without rounding, `ControllerSpec => []CalledAgainWhileValuesRemain` |
| `ModelExchangeProofs!OneAtATime` | without concurrency, `Spec => []ResponseIsInSyncWithRequest` |
| `ModelExchangeProofs!FailuresAreItsOwn` | without concurrency, `Spec => []FailsOnlyByItsRequest` |
| `ModelExchangeProofs!AtItsOwnDate` | without concurrency, `Spec => []EvaluatedAtTheRequestedDate` |
| `ModelExchangeProofs!ImplementsRequestResponse` | without concurrency, `Spec => AnswersFromTheRequestAlone`: the refinement of `RequestResponse` |
| `CoSimulationProofs!ModelsFindTheAnsweredPast` | `Spec => []ThePastIsTheAnsweredOne` |
| `CoSimulationProofs!ImplementsRequestResponse` | `Spec => AnswersFromTheRequestAlone`: the refinement of `RequestResponse` |
| `CoSimulationProofs!StatesAreStates` | when integrating gives states, `Spec => []TypeOK` |
| `MeshIntersectorProofs!TypeIsCorrect` | `Spec => []TypeOK`: nodes exist, and fit in the room reserved for them |
| `MeshIntersectorProofs!FacetsStayOnTheirSide` | `Spec => []FacetsAreOnTheirSide` |
| `MeshIntersectorProofs!EveryUpdateStartsAfresh` | `Spec => []UpdateForgetsThePast` |
| `MeshIntersectorProofs!HullsStayWatertight` | for closed hulls, `Spec => []TheHullStaysWatertight` |
| `MeshIntersectorProofs!HullsOpenOnTheSurface` | for closed hulls, `Spec => []OpenOnlyOnTheSurface` |
| `MeshIntersectorProofs!ClosingFacetsCloseTheLoops` | for hulls whose facets have different corners, `Spec => []ClosingFacetsCloseTheHull` |

* **Bisection.** From lists with increasing dates. The invariant is the loop's: the date is
  above the lower bound and at most at the upper one. Sortedness turns each return into the
  bracket.
* **History.** From `Tmax \in Nat` and integer dates. `StrictlyIncreasing` alone is not
  inductive: after trimming, the new front has to be before the second point, which needs to
  know that no stored date precedes the window and that the front is the oldest instant.
  `IInv` therefore joins the order of the dates, the start of the window and the
  correspondence of the points after the front with the log. The lemmas say what inserting,
  replacing and trimming do to a sorted list; `record` is then one step of each.
  `AveragesTile` follows from the order of the dates and the bracket of the date where the
  average begins: the parts of the integral are the rest of one interval and whole ones.
  `QueriesAreFaithful` needs one more invariant, `FrontIsASample`: while the dates recorded
  so far are on a grid whose step divides `Tmax`, the front of the window is a sample. The
  date where a full window starts is then on the grid (a difference of multiples of the step
  is one), so that it is one of the points and trimming interpolates nothing; and dates that
  are on a grid were so before the last of them was recorded, which makes the invariant
  inductive. The bracket of a date in such a window is made of the samples around it.
* **CSV reader.** From files of integer dates between `-Infinity` and `Infinity`, which stands
  for the largest double. The invariant `IInv` adds to the two properties that the index is that
  of some number of lines and that, without an exception, the reader is in one of two
  states: the index has the whole file, or only its first line, which is then the next one.
  `get_values` is then shown to answer by the lines it chooses between: the one that covers
  a date and the one that follows it are a greatest and a least element.
* **CSV controller.** From `ExactArithmetic`, that `fl` rounds nothing, and starts and
  shifted dates below `Infinity`. Without the first hypothesis both theorems are false: the run
  `csv_controller_rounded` shows it, and a finding says so. `ControllerInv` joins the
  reader's invariant with the schedule (the solver does not run past a call) and with
  `Sleeps`: the lines up to the command's have come, and the controller sleeps no longer
  than until the next one.
* **Model exchange.** From requests with at least one state. What a response contains was
  collected over six steps, so the invariant `Inv` says at each place of the handler what
  the shared objects hold: which part of the request's history, which commands, which
  status. An output that is not computed is the one fault left when the observer comes
  (`OnlyTheOutputs`). `Exclusive` (at most one call in progress) is what lets the other calls' parts
  stand still, and it is exactly what the gRPC server lacks. `LeastNatural` gives the last
  sample recorded at a date. The refinement uses the same invariant: `call` maps to `Ask`,
  `return` to `Answer` (the invariant makes the response one of `Served`), every other step
  to a stutter.
* **Co-simulation.** From requests with a non-empty list of dated states and a step that the
  solvers' dates divide. `Inv` has one predicate per place of the handler: what was set from
  the request, which commands, what was observed and, within a step, that the states observed
  are those of `Run`, the run of the request as a function of the number of steps alone. `Run`
  is a recursive function; that it exists and what each of its values is are lemmas
  (`RunsExist`, `AfterExists`), by induction on the number of steps in first-order form. A run
  that fails stays failed (`RunsFail`), so that the first failed evaluation decides the
  answer. The predictions of a step are recorded after the states answered before it
  (`PredictionsAreKeptApart`), and the one at the end of the step is replaced when the next
  step begins there: that is `ModelsFindTheAnsweredPast`. `StatesAreStates` takes any set of values for the commands
  and assumes that `Integrated` makes states of states and evaluations.

* **Mesh.** From hulls of triangles with different corners, any number of them, connected in
  any way, and any integers as immersions. The builder numbers points and edges such that the
  edges of each facet run from corner to corner (`TriangleIs`), and each edge knows its
  facets. Whatever is appended to a mesh (`Grown`), dropping it gives the hull back, which is
  why updates forget. Each edge that crosses the surface is replaced by two halves that meet
  in a node of its own on the surface (`AllSplit`). A facet that is not flagged lies
  strictly on one side (`StatusIs`); of one that is flagged, `FacetIsParted` goes through what its
  three edges can be, with the place where the closing edge is put in each case, and
  `CloseSide` shows that the nodes kept are of that side. `Inv` joins `MeshInv` (the mesh is
  a hull with what was appended, and the lists are on their side), `WalkInv` (walks are along
  edges on the surface, so that closing facets have nodes that exist) and
  `UpdateForgetsThePast`. The loops over facets, edges and steps of a walk are recursive
  functions whose values are lemmas by induction on a number, as for `Run`.
* **Watertight hulls.** From `HullsAreClosed`: between two corners, as many facets of the
  hull run one way as the other. TLC evaluates it for the two hulls of the run; an open hull
  falsifies both theorems. A side that crosses the surface is two pieces, with the same node in
  the middle for all facets that have the side, so that the pieces of all facets balance as
  the sides do (`PiecesBalance`). Each facet is listed as it is, or as two facets that have its
  pieces and the closing edge once in each direction (`FacetIsParted`, `RoundFacet`), or, when
  it lies on the surface, in both lists, of which one counts: what is listed for it balances
  its pieces (`DealtIsAdded`). `Progress` says so of the facets dealt with so far, in the form
  of an equation between how often a side is run through in what is listed and in what is due;
  after the last facet it gives `Watertight`. `SurfaceKnown` is carried along: a side whose
  two nodes are on the surface is that of an edge known to be there. `HullInv` joins both
  for the state that the last update left, and every other action leaves it alone. A side
  where the immersed part is open then has both nodes on the surface: with a node below it,
  all facets that have the side are immersed, and they balance.

* **Closing facets.** From `FacetsDiffer`: no two facets of the hull have the same corners.
  TLC evaluates it for the two hulls of the run. It is needed: a hull made of a triangle and
  its back is closed, but a cut through it gives two closing edges with the same ends, from
  which `next_edge` throws; with that hull in `MCHulls`, TLC finds it left open. In the other hulls no two edges on
  the surface have the same ends (`CutIsApart`): the ends of an edge on the surface, taken back
  to the corners of the hull they come from, are the two ends of an edge of the hull, or the
  three corners of the one facet that the edge closes. The parts that the edges are
  grouped into are connected (`ComponentIsJoined`). In a connected loop, a walk meets an edge
  it has been along only when it is back at its start (`NextEdgeIs`), and has then been along
  all edges (`TourIs`), because every node of the walk has both its edges on it; it always
  finds a next edge (`HasNextEdge`), and with as many edges as the loop it has all of them
  (`AllWalked`). Turned around, it still has (`FlipTour`), so that both contours have the same
  edges; and the facet made from them has those edges as sides (`TourFacet`). The invariant
  `LoopInv` says that the closing facets built so far, the loop at hand and those that are
  left make up the edges on the surface.

Only model-checked: liveness (`Terminates`, `EveryLineIsApplied`, `EveryCallIsAnswered`),
which is out of the prover's reach. The theorems about the model-exchange server leave out
concurrent calls, where they are false (the run `me_clients`).

## 5. Plan

Done: `History` and `BracketSearch`, the CSV reader and controller, model exchange,
co-simulation, both servers as implementations of `RequestResponse`, the mesh and its cut by
the free surface, and the proofs of section 4: every invariant and action property that a
passing run checks is a theorem. What is left are further components, if they get more control
than they have now: a deadline or a retry for remote models, a cache of forces that is used.

## 6. What is not modelled

* Real arithmetic: force models, environment, hydrostatic forces, volumes and angles of the
  mesh, GZ curves, kinematics, the sums of the PID. TLC has no reals, and their errors are
  numeric, not of order or sharing.
* FMI, the gRPC controller, remote force and wave models: thin layers over a `Sim` or a stub
  whose order of calls is decided outside the repository; no deadline or retry is handled.
* Blocked states, which are functions of the date, and the formats of observers.
* Memoization of forces: what it compares with is never stored, so it never applies.
* Concurrent calls of the co-simulation service: they share a simulator in the way that
  `me_clients` shows for model exchange.
* Facets of more than three corners: STL files have triangles.
* Parsers, file formats, HDF5, command lines, Python bindings, test generators: input and
  output, run once.
* The `ssc` library, beyond what its users rely on.
* Several bodies, filters and blocked states in the servers: the model-exchange server sets
  the state of the first body only, and these read the same history.
