--------------------------- MODULE PipelineEngine ---------------------------
(***************************************************************************)
(* How a session of the JSON pipeline comes to its results: runPipeline    *)
(* (jsonpipelinestage.go), which takes over the stages of the run before   *)
(* it as far as the steps are the same, and UpdatePipelineState and        *)
(* compute (jsonpipelineservice.go), which hand one run to the next.       *)
(*                                                                         *)
(* What sends the updates, and how calls and answers cross, is             *)
(* PipelineSessions, in which a result is that of its document and rules.  *)
(* Here is why it is.                                                      *)
(***************************************************************************)
EXTENDS PipelineSteps

CONSTANTS Sources,   \* the documents typed: a value, Blank, or Bad if it does not parse
          Lists,     \* the lists of steps set up
          Edited,    \* the lists each of them is changed into
          MaxEdits   \* bounds the changes

\* The steps of a list have different names, the window keeps a template last
\* (addPipelineItem, movePipelineItem, updateType), and lists change into lists.
EngineAssumption ==
  /\ \A l \in Lists : \A i, j \in DOMAIN l : l[i].id = l[j].id => i = j
  /\ \A l \in Lists : \A i \in DOMAIN l : l[i].type = "template" => i = Len(l)
  /\ Edited \in [Lists -> SUBSET Lists] /\ MaxEdits \in Nat

VARIABLES
  doc,      \* session.docID and session.source
  pipe,     \* session.pipelineID
  items,    \* session.items
  run,      \* session.run
  jobs,     \* the goroutines in compute
  edits     \* how many changes there were

vars == <<doc, pipe, items, run, jobs, edits>>

(***************************************************************************)
(* runPipeline.                                                            *)
(***************************************************************************)
Run(d, list, stages, output, text, error) ==
  [doc |-> d, items |-> list, stages |-> stages, output |-> output, text |-> text, error |-> error]
Stage(s, input, output, text, error) ==
  [item |-> s, input |-> input, output |-> output, text |-> text, error |-> error]
Error(code, i) == [code |-> code, item |-> i]

hasEnabledAfter(list, i) == \E n \in (i + 1)..Len(list) : list[n].enabled

\* What a step makes of a value.
Result(list, i, value) ==
  CASE ~list[i].enabled -> Found(value)
    [] list[i].enabled /\ list[i].type = "template" /\ hasEnabledAfter(list, i) -> Fault("templateNotLast")
    [] OTHER -> executePipelineItem(value, list[i])

StageOf(s, i, last, result) ==
  IF result.fault # None THEN Stage(s, last.output, None, FALSE, Error(result.fault, i))
  ELSE Stage(s, last.output, result.value, IF s.enabled THEN s.type = "template" ELSE last.text, None)

\* A run of these stages and those of the steps that have none yet.
RECURSIVE Continued(_, _, _)
Continued(d, list, stages) ==
  LET i == Len(stages) + 1
      last == IF stages = <<>> THEN Stage(None, None, d.source, FALSE, None) ELSE stages[i - 1]
  IN IF last.error # None \/ i > Len(list) THEN Run(d, list, stages, last.output, last.text, last.error)
     ELSE Continued(d, list, Append(stages, StageOf(list[i], i, last, Result(list, i, last.output))))

\* How many stages of the run before are taken over.
ReusableOfAny(d, list, previous) ==
  IF previous = None \/ previous.error # None THEN 0
  ELSE Max({n \in 0..Min({Len(list), Len(previous.items), Len(previous.stages)}) :
              \A i \in 1..n : previous.items[i] = list[i]})
Reusable(d, list, previous) ==
  IF previous = None \/ previous.doc # d \/ previous.error # None THEN 0
  ELSE Max({n \in 0..Min({Len(list), Len(previous.items), Len(previous.stages)}) :
              \A i \in 1..n : previous.items[i] = list[i]})

runPipeline(d, list, previous) ==
  LET n == Reusable(d, list, previous)
  IN Continued(d, list, IF n = 0 THEN <<>> ELSE SubSeq(previous.stages, 1, n))

\* compute: an empty document has no result, and one that does not parse an error.
Computed(j) ==
  CASE j.doc.source = Blank -> Run(None, j.items, <<>>, None, FALSE, None)
    [] j.doc.source = Bad -> Run(None, j.items, <<>>, None, FALSE, Error("invalidJson", None))
    [] OTHER -> runPipeline(j.doc, j.items, j.previous)

(***************************************************************************)
(* The session.                                                            *)
(***************************************************************************)
Job(number, d, p, list, previous) ==
  [number |-> number, doc |-> d, pipe |-> p, items |-> list, previous |-> previous]

\* Its first update.
Init ==
  /\ doc \in [id : {1}, source : Sources]
  /\ pipe = 1 /\ items \in Lists
  /\ run = None /\ edits = 0
  /\ jobs = {Job(0, doc, 1, items, None)}

\* UpdatePipelineState.  An update without a change computes only if nothing has been computed.
Update(source, list) ==
  /\ edits < MaxEdits
  /\ source # doc.source \/ list # items \/ run = None
  /\ edits' = edits + 1
  /\ doc' = IF source = doc.source THEN doc ELSE [id |-> doc.id + 1, source |-> source]
  /\ pipe' = IF list = items THEN pipe ELSE pipe + 1
  /\ items' = list
  /\ jobs' = jobs \cup {Job(edits + 1, doc', pipe', list, run)}
  /\ UNCHANGED run

\* An update cancels what was computed for the one before, which may be too
\* late; PipelineSessions says which is cancelled.
Canceled(j) ==
  /\ j \in jobs /\ j.number < edits
  /\ jobs' = jobs \ {j}
  /\ UNCHANGED <<doc, pipe, items, run, edits>>

\* compute ends: a result of another document or other steps is dropped.
ComputeEnds(j) ==
  /\ j \in jobs
  /\ jobs' = jobs \ {j}
  /\ run' = IF j.doc = doc /\ j.pipe = pipe THEN Computed(j) ELSE run
  /\ UNCHANGED <<doc, pipe, items, edits>>

Next ==
  \/ \E source \in Sources, list \in {items} \cup Edited[items] : Update(source, list)
  \/ \E j \in jobs : Canceled(j) \/ ComputeEnds(j)

Spec == Init /\ [][Next]_vars

(***************************************************************************)
(* Properties.                                                             *)
(***************************************************************************)
TypeOK ==
  /\ doc.id \in 1..(edits + 1) /\ doc.source \in Sources
  /\ pipe \in 1..(edits + 1) /\ items \in Lists /\ edits \in 0..MaxEdits
  /\ run # None => run.items \in Lists /\ Len(run.stages) <= Len(run.items)
  /\ \A j \in jobs : j.number <= edits /\ j.items \in Lists

Fresh == Continued(run.doc, run.items, <<>>)

\* A run that takes over stages of the one before it is the same, in its
\* result, its error and its stages, as one from the beginning (runPipeline;
\* TestIncrementalReuseMatchesFullRun, jsonpipelineengine_test.go 312).  And when
\* nothing is being computed, the run is that of the document and the steps of
\* the session, whatever was taken over, cancelled or dropped (compute).
ResultsAreOfTheRules ==
  /\ run # None /\ run.doc # None => run = Fresh
  /\ jobs = {} => /\ run # None /\ run.items = items
                  /\ run.doc = IF doc.source \in {Blank, Bad} THEN None ELSE doc

-----------------------------------------------------------------------------
RECURSIVE NameTwice(_)
NameTwice(v) ==
  /\ ~IsScalar(v)
  /\ \/ IsObject(v) /\ \E i, j \in DOMAIN Held(v) : i # j /\ Held(v)[i][1] = Held(v)[j][1]
     \/ \E i \in DOMAIN Held(v) : NameTwice(Child(v, i))

Opposite == [includes |-> "excludes", excludes |-> "includes", notNull |-> "isNull", isNull |-> "notNull",
             notEmpty |-> "isEmpty", isEmpty |-> "notEmpty", gt |-> "lte", lte |-> "gt", gte |-> "lt", lt |-> "gte",
             stringLengthGt |-> "stringLengthLte", stringLengthLte |-> "stringLengthGt",
             stringLengthGte |-> "stringLengthLt", stringLengthLt |-> "stringLengthGte"]

\* An entry a filter can decide on.
Decided(e, s) ==
  LET key == KeyOf(e, s) IN
  CASE s.operator \in ListOperators -> TRUE
    [] s.operator \in UnaryOperators -> key.fault = None
    [] s.operator \in DOMAIN LengthBase -> key.fault = None /\ Kind(key.value) = "string"
    [] OTHER -> key.fault = None /\ IsScalar(key.value) /\ Kind(key.value) = Kind(Expected(s).value)

Count(e, entries) == Cardinality({i \in DOMAIN entries : entries[i] = e})

\* Of the array a step worked on, old before and new after it.
ArrayPromise(s, old, new) ==
  CASE s.type = "arraySort" ->
         /\ \A e \in Range(old) \cup Range(new) : Count(e, old) = Count(e, new)
         /\ \A i \in DOMAIN old : ~Sortable(old[i], s) => new[i] = old[i]
         /\ \A i, j \in DOMAIN new :
              i < j /\ Sortable(new[i], s) /\ Sortable(new[j], s) =>
                LET c == compareScalars(KeyOf(new[i], s).value, KeyOf(new[j], s).value)
                IN IF s.direction = "desc" THEN c >= 0 ELSE c <= 0
    [] s.type = "arrayDedupe" ->
         /\ \A e \in Range(old) : KeyOf(e, s).fault # None => Count(e, new) = Count(e, old)
         /\ \A e \in Range(old) : KeyOf(e, s).fault = None =>
              Cardinality({i \in DOMAIN new : SameKey(new[i], e, s)}) = 1
    [] s.type = "filter" /\ s.operator \in DOMAIN Opposite ->
         \A e \in Range(old) :
           e \in Range(new) <=> Decided(e, Keyed(s)) /\ ~Kept(e, [Keyed(s) EXCEPT !.operator = Opposite[@]])
    [] OTHER -> TRUE

\* What a step makes of a value keeps what the step is for (jsonpipelineengine.go):
\* done twice it changes nothing more; sorting by name keeps every value under
\* its name; the steps on an array touch nothing else; sorting keeps the entries,
\* and those without a key in their places; of equal ones exactly one is left;
\* a filter and its opposite share out the entries it can decide on.  Not so where an object has
\* a name twice: reading takes the first, sorting by name the last, and writing
\* changes both (jsonvalue.go 71-98, jsonpipelineengine.go 418-424).
StepsKeepTheirPromise ==
  run # None =>
    \A st \in Range(run.stages) :
      LET s == st.item
          v == st.input
          w == st.output
      IN s.enabled /\ st.error = None /\ ~NameTwice(v) =>
           /\ s.type \notin {"extract", "template"} => executePipelineItem(w, s) = Found(w)
           /\ s.type = "sort" /\ s.sortMode = "key" => Canonical(w) = Canonical(v)
           /\ s.type \in {"arraySort", "arrayDedupe", "filter", "arrayTrim"} =>
                LET old == readTokens(v, s.arrayPath).value
                    new == readTokens(w, s.arrayPath).value
                IN /\ updatePath(w, s.arrayPath, old) = v
                   /\ ArrayPromise(s, Held(old), Held(new))
==============================================================================
