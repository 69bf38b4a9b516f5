------------------------------ MODULE MCEngines -------------------------------
(* The two review engines in one run. They share nothing but the table that   *)
(* ReviewQueue models, so one of them runs at a time: the threads of a v2      *)
(* attempt that compete for one slot (the constants of the cfg), those of one  *)
(* with two groups and slots enough, or the chat engine.                       *)
EXTENDS ReviewRun

CONSTANTS g1, MaxRequests, MaxContinuations, MaxFixes, ChatRetries, MaxAttempts

VARIABLES
  engine,
  tier, chatRow, chatAllowed, chat, at, call, used, errors, ended

chatVars == <<tier, chatRow, chatAllowed, chat, at, call, used, errors, ended>>

Wide == INSTANCE ReviewRun WITH
  Slots <- 2, RateRetries <- 0, TransientRetries <- 0, OtherCalls <- 0

Chat == INSTANCE ChatRun WITH
  row <- chatRow, allowed <- chatAllowed, p <- chat,
  RateRetries <- ChatRetries, TransientRetries <- ChatRetries

ASSUME ChatConstants == Chat!ChatAssumption

EnginesInit ==
  \/ engine = "contended" /\ Init /\ p.batches \ {g1} = Task \ {g1}
     /\ Chat!Init /\ tier = "fast"
  \/ engine = "wide" /\ Wide!Init /\ ~p.planned /\ Chat!Init /\ tier = "fast"
  \/ engine = "chat" /\ Init /\ p.batches = {} /\ ~p.planned /\ Chat!Init

\* In the contended setting the other groups are done.
Contended == Next /\ Task \ {g1} \subseteq p'.batches

EnginesNext ==
  /\ UNCHANGED engine
  /\ \/ engine = "contended" /\ Contended /\ UNCHANGED chatVars
     \/ engine = "wide" /\ Wide!Next /\ UNCHANGED chatVars
     \/ engine = "chat" /\ Chat!Next /\ UNCHANGED vars

MainRuns ==
  CASE engine = "contended" -> Main /\ Contended
    [] engine = "wide" -> Wide!Main
    [] engine = "chat" -> FALSE

JobRuns(j) ==
  CASE engine = "contended" -> Step(j)
    [] engine = "wide" -> Wide!Step(j)
    [] engine = "chat" -> FALSE

\* Fairness of ReviewRun and ChatRun, for whichever runs.
EnginesSpec ==
  /\ EnginesInit /\ [][EnginesNext]_<<engine, vars, chatVars>>
  /\ WF_vars(MainRuns) /\ \A j \in Job : WF_vars(JobRuns(j))
  /\ WF_vars(engine # "chat" /\ (StartJob \/ PublishPlan \/ Retrieve))
  /\ WF_chatVars(engine = "chat" /\ Chat!Attempt)

-------------------------------------------------------------------------------
(* Properties of the modules, as this run checks them *)

\* AttemptEnds of ReviewRun, while one of its attempts runs, and of ChatRun.
AttemptsEnd == (engine # "chat" => AttemptEnds) /\ Chat!AttemptEnds

\* Those of ChatRun: a good draft is delivered, no answer is asked for twice.
DraftDelivered == Chat!DraftDelivered
NoAnswerTwice == Chat!NoAnswerTwice
===============================================================================
