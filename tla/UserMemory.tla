------------------------------- MODULE UserMemory ------------------------------
(* What the application remembers of a user: rows, and a vector file beside    *)
(* them. A thread of its own learns from each exchange; requests change,       *)
(* forget and use memories on the event loop, which a vector operation holds.  *)
EXTENDS Naturals, Sequences, SequencesExt, FiniteSets

CONSTANTS
  Memo,         \* row ids
  Fact,         \* contents, each with its category: what makes two memories the same
  Learner,      \* background threads, one for each exchange
  Asker,        \* requests
  NoMemo, NoSettings, NoFile,
  MemoryFaults  \* bound of the runs: vector operations that fail

UserMemoryAssumption ==
  /\ Learner \cap Asker = {} /\ MemoryFaults \in Nat
  /\ NoMemo \notin Memo

VARIABLES
  settings, \* user_memory_settings: a row made at first use
  memos,    \* user_memories
  file,     \* the ids in the user's vector file
  temp,     \* its temporary file, which all threads of the process share
  actor,    \* each request and thread: where it is and what it holds
  failed    \* vector operations that failed

memoryVars == <<settings, memos, file, temp, actor, failed>>

DefaultSettings == [enabled |-> TRUE, auto |-> TRUE]
NoRecord == [fact |-> NoMemo, deleted |-> FALSE]

Fresh == [at |-> "idle", op |-> "none", seen |-> NoSettings, memo |-> NoMemo, todo |-> <<>>,
          picked |-> {}, used |-> {}, gone |-> {}]

Init ==
  /\ settings = NoSettings
  /\ memos = [m \in Memo |-> NoRecord]
  /\ file = {} /\ temp = NoFile /\ failed = 0
  /\ actor = [p \in Learner \cup Asker |-> Fresh]

Active == {m \in Memo : memos[m].fact # NoMemo /\ ~memos[m].deleted}
Deleted == {m \in Memo : memos[m].deleted}

Move(p, a) == actor' = [actor EXCEPT ![p] = a]
Go(p, at) == Move(p, [actor[p] EXCEPT !.at = at])
At(p, op, at) == actor[p].op = op /\ actor[p].at = at

\* Where an actor goes once its memory's vector is seen to: a thread, to its next candidate.
After(p) == IF actor[p].op = "learn" THEN "next" ELSE "end"

-------------------------------------------------------------------------------
(* Settings *)

\* A request or a thread begins; what is deleted by then is remembered for the property.
Begin(p) ==
  /\ actor[p].at = "idle"
  /\ \/ /\ p \in Learner
        /\ Move(p, [Fresh EXCEPT !.op = "learn", !.at = "settings"])
     \/ /\ p \in Asker
        /\ \/ \E op \in {"recall", "enable", "auto"} :
                Move(p, [Fresh EXCEPT !.op = op, !.at = "settings", !.gone = Deleted])
           \/ \E m \in Memo : Move(p, [Fresh EXCEPT !.op = "forget", !.at = "update", !.memo = m])
           \/ \E m \in Memo, f \in Fact :
                Move(p, [Fresh EXCEPT !.op = "change", !.at = "select", !.memo = m, !.todo = <<f>>])
  /\ UNCHANGED <<settings, memos, file, temp, failed>>

\* What the settings allow: a thread learns, a retrieval looks, a change of settings goes on.
Allowed(p, s) ==
  CASE actor[p].op = "learn" -> IF s.enabled /\ s.auto THEN "extract" ELSE "end"
    [] actor[p].op = "recall" -> IF s.enabled THEN "hits" ELSE "end"
    [] OTHER -> "switch"

Saw(p, s) == Move(p, [actor[p] EXCEPT !.seen = s, !.at = Allowed(p, s)])

GetSettings(p) ==
  /\ actor[p].at = "settings"
  /\ IF settings = NoSettings THEN Go(p, "default") ELSE Saw(p, settings)
  /\ UNCHANGED <<settings, memos, file, temp, failed>>

\* The default row; the insertion raises if another made one meanwhile.
InsertSettings(p) ==
  /\ actor[p].at = "default"
  /\ IF settings = NoSettings
     THEN settings' = DefaultSettings /\ Saw(p, DefaultSettings)
     ELSE Go(p, "end") /\ UNCHANGED settings
  /\ UNCHANGED <<memos, file, temp, failed>>

\* The user turns the memory, or the learning, on or off: the whole row is written again, with
\* what was read of the other.
SwitchSettings(p) ==
  /\ actor[p].at = "switch"
  /\ \E on \in BOOLEAN :
       settings' = IF actor[p].op = "enable" THEN [actor[p].seen EXCEPT !.enabled = on]
                   ELSE [actor[p].seen EXCEPT !.auto = on]
  /\ Go(p, "end")
  /\ UNCHANGED <<memos, file, temp, failed>>

-------------------------------------------------------------------------------
(* The vector file *)

\* A request in the middle of a vector operation holds the event loop.
Busy == {p \in Asker : actor[p].at \in {"write", "replace", "unlink"}}
Runs(p) == p \in Learner \/ Busy \subseteq {p}

NewVectors(p) == IF actor[p].op = "forget" THEN file \ {actor[p].memo} ELSE file \cup {actor[p].memo}

\* An upsert adds a vector for the row as listed, a deletion leaves it out; one without a vector
\* to delete writes nothing. An embedding or a read may fail: the operation is skipped.
ReadVectors(p) ==
  /\ actor[p].at = "vector"
  /\ \/ /\ IF actor[p].op = "forget" /\ actor[p].memo \notin file THEN Go(p, "end")
           ELSE Move(p, [actor[p] EXCEPT !.at = "write", !.picked = NewVectors(p)])
        /\ UNCHANGED failed
     \/ failed < MemoryFaults /\ failed' = failed + 1 /\ Go(p, After(p))
  /\ UNCHANGED <<settings, memos, file, temp>>

WriteVectors(p) ==
  /\ actor[p].at = "write"
  /\ temp' = actor[p].picked
  /\ Go(p, "replace")
  /\ UNCHANGED <<settings, memos, file, failed>>

\* Another thread may have moved the temporary file, which raises, or written over it.
ReplaceFile(p) ==
  /\ actor[p].at = "replace"
  /\ IF temp = NoFile THEN UNCHANGED <<file, temp>> ELSE file' = temp /\ temp' = NoFile
  /\ Go(p, "unlink")
  /\ UNCHANGED <<settings, memos, failed>>

\* The finally block removes a temporary file, whoever wrote it.
UnlinkTemp(p) ==
  /\ actor[p].at = "unlink"
  /\ temp' = NoFile
  /\ Go(p, After(p))
  /\ UNCHANGED <<settings, memos, file, failed>>

VectorStep(p) == ReadVectors(p) \/ WriteVectors(p) \/ ReplaceFile(p) \/ UnlinkTemp(p)

\* The row is listed again after a write, and its vector follows if it is still active.
ListMemo(p) ==
  /\ actor[p].at = "list"
  /\ Go(p, IF actor[p].memo \in Active THEN "vector" ELSE After(p))
  /\ UNCHANGED <<settings, memos, file, temp, failed>>

-------------------------------------------------------------------------------
(* Learning, changing and forgetting *)

\* The model's candidates and the heuristic ones, without repetition.
Extract(p) ==
  /\ At(p, "learn", "extract")
  /\ \E facts \in SUBSET Fact : \E order \in SetToAllKPermutations(facts) :
       Move(p, [actor[p] EXCEPT !.at = "next", !.todo = order])
  /\ UNCHANGED <<settings, memos, file, temp, failed>>

Same(fact) == {m \in Active : memos[m].fact = fact}

\* The next candidate: an active memory with the same content is written over.
FindSame(p) ==
  /\ At(p, "learn", "next")
  /\ IF actor[p].todo = <<>> THEN Go(p, "end")
     ELSE \E m \in IF Same(Head(actor[p].todo)) = {} THEN {NoMemo} ELSE Same(Head(actor[p].todo)) :
            Move(p, [actor[p] EXCEPT !.at = "store", !.memo = m])
  /\ UNCHANGED <<settings, memos, file, temp, failed>>

\* An update changes no content, even of a row deleted since; an insertion makes a row.
Store(p) ==
  /\ At(p, "learn", "store")
  /\ \E m \in IF actor[p].memo # NoMemo THEN {actor[p].memo}
              ELSE {n \in Memo : memos[n] = NoRecord} :
       /\ memos' = IF actor[p].memo # NoMemo THEN memos
                   ELSE [memos EXCEPT ![m].fact = Head(actor[p].todo)]
       /\ Move(p, [actor[p] EXCEPT !.at = "list", !.memo = m, !.todo = Tail(@)])
  /\ UNCHANGED <<settings, file, temp, failed>>

\* A change is refused for a row that is not active, and written to it whatever it is by then.
SelectMemo(p) ==
  /\ At(p, "change", "select")
  /\ Go(p, IF actor[p].memo \in Active THEN "update" ELSE "end")
  /\ UNCHANGED <<settings, memos, file, temp, failed>>

ChangeMemo(p) ==
  /\ At(p, "change", "update")
  /\ memos' = [memos EXCEPT ![actor[p].memo].fact = Head(actor[p].todo)]
  /\ Go(p, "list")
  /\ UNCHANGED <<settings, file, temp, failed>>

\* A row is marked, never removed; its vector goes only if this request marked it.
ForgetMemo(p) ==
  /\ At(p, "forget", "update")
  /\ IF actor[p].memo \in Active
     THEN memos' = [memos EXCEPT ![actor[p].memo].deleted = TRUE] /\ Go(p, "vector")
     ELSE Go(p, "end") /\ UNCHANGED memos
  /\ UNCHANGED <<settings, file, temp, failed>>

-------------------------------------------------------------------------------
(* Using memories *)

\* Some of the file's vectors are near the question; a query that fails has none.
QueryVectors(p) ==
  /\ At(p, "recall", "hits")
  /\ \E hits \in SUBSET file :
       Move(p, [actor[p] EXCEPT !.at = IF hits = {} THEN "scan" ELSE "rows", !.picked = hits])
  /\ UNCHANGED <<settings, memos, file, temp, failed>>

\* Mutant: the hits are used as the vector file has them.
SelectHitsOfFile(p) ==
  /\ At(p, "recall", "rows")
  /\ Move(p, [actor[p] EXCEPT !.used = actor[p].picked, !.at = "end"])
  /\ UNCHANGED <<settings, memos, file, temp, failed>>

\* Their rows, unless deleted; hits without a row fall back to the list.
SelectHits(p) ==
  /\ At(p, "recall", "rows")
  /\ LET selected == actor[p].picked \cap Active IN
     Move(p, [actor[p] EXCEPT !.used = selected, !.at = IF selected = {} THEN "scan" ELSE "end"])
  /\ UNCHANGED <<settings, memos, file, temp, failed>>

\* Those that share a word with the question, and those about style; no more than asked for.
Scored == SUBSET Active

ScoreList(p) ==
  /\ At(p, "recall", "scan")
  /\ \E selected \in Scored : Move(p, [actor[p] EXCEPT !.used = selected, !.at = "end"])
  /\ UNCHANGED <<settings, memos, file, temp, failed>>

-------------------------------------------------------------------------------

ActorStep(p) ==
  /\ Runs(p)
  /\ \/ Begin(p) \/ GetSettings(p) \/ InsertSettings(p) \/ SwitchSettings(p)
     \/ VectorStep(p) \/ ListMemo(p)
     \/ Extract(p) \/ FindSame(p) \/ Store(p)
     \/ SelectMemo(p) \/ ChangeMemo(p) \/ ForgetMemo(p)
     \/ QueryVectors(p) \/ SelectHits(p) \/ ScoreList(p)

Next == \E p \in Learner \cup Asker : ActorStep(p)

Spec == Init /\ [][Next]_memoryVars

-------------------------------------------------------------------------------

TypeOK ==
  /\ settings \in {NoSettings} \cup [enabled : BOOLEAN, auto : BOOLEAN]
  /\ memos \in [Memo -> [fact : Fact \cup {NoMemo}, deleted : BOOLEAN]]
  /\ file \subseteq Memo /\ (temp = NoFile \/ temp \subseteq Memo)
  /\ failed \in 0..MemoryFaults

\* A memory the user deleted is in no answer to a question asked afterwards, though its vector
\* may still be in the file, or come back to it with a change or a thread that was under way:
\* the rows are what get_relevant_user_memories goes by.
ForgottenUnused == \A p \in Asker : actor[p].used \cap actor[p].gone = {}

\* Not so: a vector is in the file only for a row that is not deleted. A request that changes
\* the row lists it before the deletion and writes its vector after.
ForgottenHasNoVector == (\A p \in DOMAIN actor : actor[p].at \in {"idle", "end"}) => file \cap Deleted = {}
===============================================================================
