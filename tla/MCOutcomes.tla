----------------------------- MODULE MCOutcomes -----------------------------
(***************************************************************************)
(* The executor with the log its outcomes end in.  The executor hands its  *)
(* events over without waiting and reads nothing back, so a behaviour runs *)
(* one of the two (part); the log in one process with a bundle of the      *)
(* feed and another row, in two processes with a bundle of the engine, or  *)
(* in two with two snipes of a token.                                      *)
(***************************************************************************)
EXTENDS MCExecutor

CONSTANTS Ids, FeedIds, Snipes, Rows, Capacity, BatchSize, MaxStarts

ASSUME LogAssumption ==
    Capacity \in Nat /\ BatchSize \in Nat \ {0} /\ MaxStarts \in Nat \ {0}

VARIABLES part, start, stage, sniped, logged, queue, batch, writer, connected, dropped,
          sent, settled, opps, execs, events, perf

logState == <<start, stage, sniped, logged, queue, batch, writer, connected, dropped,
              sent, settled, opps, execs, events, perf>>

Log == INSTANCE StrategyLogger

\* What happens in each part of the log.
Busy ==
    [one |-> [bundles |-> FeedIds, snipes |-> {}, rows |-> Rows, starts |-> 1],
     restarted |-> [bundles |-> Ids, snipes |-> {}, rows |-> {}, starts |-> MaxStarts],
     sniping |-> [bundles |-> {}, snipes |-> Snipes, rows |-> {}, starts |-> MaxStarts]]

Within(busy) ==
    /\ start' <= busy.starts /\ logged' \subseteq busy.rows
    /\ \A b \in Ids \cup FeedIds : stage'[b] # "new" => b \in busy.bundles
    /\ \A n \in Snipes : sniped'[n] # "new" => n \in busy.snipes

MCInit ==
    /\ Init /\ Log!Init
    /\ part \in {"executor"} \cup DOMAIN Busy
    /\ part # "executor" => proc.fast /\ proc.dry

MCNext ==
    /\ UNCHANGED part
    /\ \/ part = "executor" /\ Next /\ UNCHANGED logState
       \/ part \in DOMAIN Busy /\ Log!Next /\ Within(Busy[part]) /\ UNCHANGED vars

\* The fairness of Executor; tasks exist only in its part.
MCSpec ==
    /\ MCInit /\ [][MCNext]_<<part, vars, logState>>
    /\ \A i \in Sends : WF_<<part, vars, logState>>(part = "executor" /\ TaskNext(i) /\ UNCHANGED <<part, logState>>)

-----------------------------------------------------------------------------
\* The log tells the truth about sends and snipes (writer.rs, run_writer): no
\* event is lost without being counted, and rows that refer to each other
\* belong together.
LogIsTrue == Log!TypeOK /\ Log!LogIsTrue
=============================================================================
