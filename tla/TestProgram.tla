---------------------------- MODULE TestProgram ----------------------------
(***************************************************************************)
(* test.cc's main: it executes one of three benches, as its second         *)
(* argument says, and returns.                                             *)
(***************************************************************************)
EXTENDS ListBench

CONSTANTS
    HT_NODE_ADD,    \* bound: N_NODE_ADD of the hash table bench, which has fewer steps
    Pending

ASSUME TestProgramAssumption ==
    HT_NODE_ADD \in Nat /\ Pending \notin Keys /\ Pending \notin {TRUE, NotFound}

VARIABLES
    bench,                        \* the argument
    table, op, answer,            \* the bench's hash table
    htGroup, htKeys, htI, htFailed

HT == INSTANCE HTBench WITH N_NODE_ADD <- HT_NODE_ADD,
          group <- htGroup, keys <- htKeys, i <- htI, failed <- htFailed

(* The hash table's keys are numbers, and those that are inserted first are *)
(* among them.                                                             *)
ASSUME HTBenchAssumption == \A j \in DOMAIN HT!InitKeys : HT!InitKeys[j] \in Keys

htVars == <<table, op, answer, htGroup, htKeys, htI, htFailed>>
allVars == <<vars, listBenchVars, htVars, bench>>

TEST_VL_API == 0
TEST_VL_LIST == 1
TEST_VL_HT == 2

MainInit ==
    /\ bench \in 0 .. 4
    /\ TestInit /\ ListBenchInit /\ HT!HTBenchInit

(* What thread t does in the bench chosen, and what main does. *)
BenchThreadStep(t) ==
    \/ /\ bench = TEST_VL_API
       /\ Running /\ ThreadStep(t)
       /\ UNCHANGED <<listBenchVars, htVars, bench>>
    \/ /\ bench = TEST_VL_LIST
       /\ ListBenchRuns /\ ListThreadStep(t)
       /\ UNCHANGED <<testVars, htVars, bench>>
    \/ /\ bench = TEST_VL_HT
       /\ htFailed = {} /\ HT!ThreadStep(t)
       /\ UNCHANGED <<vars, listBenchVars, bench>>

MainStep ==
    \/ /\ bench = TEST_VL_API
       /\ Running /\ JoinAndSpawn
       /\ UNCHANGED <<listBenchVars, htVars, bench>>
    \/ /\ bench = TEST_VL_LIST
       /\ ListBenchRuns /\ ListJoinAndSpawn
       /\ UNCHANGED <<testVars, htVars, bench>>
    \/ /\ bench = TEST_VL_HT
       /\ htFailed = {} /\ HT!JoinAndSpawn
       /\ UNCHANGED <<vars, listBenchVars, bench>>

(* main returns 0; the other numbers do nothing. *)
Returned ==
    CASE bench = TEST_VL_API -> phase = "done"
      [] bench = TEST_VL_LIST -> group = "done"
      [] bench = TEST_VL_HT -> htGroup = "done"
      [] OTHER -> TRUE

MainNext == (\E t \in Threads : BenchThreadStep(t)) \/ MainStep

MainSpec == MainInit /\ [][MainNext]_allVars

(* POSIX threads run until they return, and so does the main thread. *)
FairMainSpec ==
    /\ MainSpec
    /\ \A t \in Threads : WF_allVars(BenchThreadStep(t))
    /\ WF_allVars(MainStep)

-----------------------------------------------------------------------------
(* Properties.                                                             *)

HTNodesCounted == HT!NodesCounted
HTSavedKeysAreFound == HT!SavedKeysAreFound

(* All threads return and so does main (test.cc:79-386): writers get the    *)
(* lock as often as they ask for it, readers retry only while writers       *)
(* write.  Only a reader that the hash table bench has given no vector may  *)
(* keep the program from it.                                                *)
MainReturns == <>(Returned \/ htFailed # {})
=============================================================================
