---------------------------- MODULE BlockEngine ----------------------------
(***************************************************************************)
(* What a block cipher engine promises its host.  A block accepted is      *)
(* answered exactly Latency cycles later, by its result, for one cycle.    *)
(* A block accepted meanwhile takes its place and a reset drops it: then   *)
(* the first one is never answered.  Nothing is promised of an engine that *)
(* has seen neither a reset nor a block.                                   *)
(***************************************************************************)
EXTENDS Naturals

CONSTANTS
    Jobs,                \* what the host may ask
    Out,                 \* what the output port may show
    Result(_),           \* the answer to a job
    Latency

VARIABLES
    known,               \* the engine has seen a reset or a block
    job,                 \* the last job accepted
    age,                 \* cycles since it was; 0 when there is none to answer
    done,                \* the answer is on the output port
    out                  \* the output port

engineVars == <<known, job, age, done, out>>

EngineInit ==
    /\ known = FALSE
    /\ job \in Jobs
    /\ age = 0
    /\ done \in BOOLEAN
    /\ out \in Out

\* A cycle in the dark: the outputs mean nothing.
Dark ==
    /\ ~known
    /\ UNCHANGED <<known, job, age>>
    /\ done' \in BOOLEAN
    /\ out' \in Out

Accept ==
    /\ known' = TRUE
    /\ job' \in Jobs
    /\ age' = 1
    /\ done' = FALSE
    /\ out' \in Out

Drop ==
    /\ known' = TRUE
    /\ age' = 0
    /\ done' = FALSE
    /\ out' \in Out
    /\ UNCHANGED job

Work ==
    /\ known
    /\ age \in 1 .. Latency - 2
    /\ age' = age + 1
    /\ done' = FALSE
    /\ out' \in Out
    /\ UNCHANGED <<known, job>>

Answer ==
    /\ known
    /\ age = Latency - 1
    /\ age' = Latency
    /\ done' = TRUE
    /\ out' = Result(job)
    /\ UNCHANGED <<known, job>>

Rest ==
    /\ known
    /\ age \in {0, Latency}
    /\ age' = 0
    /\ done' = FALSE
    /\ out' \in Out
    /\ UNCHANGED <<known, job>>

EngineNext == Dark \/ Accept \/ Drop \/ Work \/ Answer \/ Rest

EngineSpec == EngineInit /\ [][EngineNext]_engineVars
=============================================================================
