------------------------- MODULE MCPipelineSessions -------------------------
(* Either the hook and its session, or the engine that computes a          *)
(* session's results: two state spaces side by side.                       *)
(*                                                                         *)
(* The hook: one hook, two places in the table, one other window.  Rules r *)
(* and q are two texts of the same rules: the empty path and "$".          *)
(*                                                                         *)
(* The engine: five documents, with entries that lack a key, hold null or  *)
(* text where others hold numbers, and names that occur twice; sixteen     *)
(* steps, alone and after each that extracts, sorts or filters, which are  *)
(* run from the beginning; and lists of up to three steps that are changed *)
(* twice, a step or the order at a time, while earlier runs are still      *)
(* being computed.                                                         *)
EXTENDS PipelineSessions

CONSTANTS Blank, Bad

VARIABLES
  used,  \* "window" or "engine"
  doc, pipe, items, run, computing, edits

MCNormal == [r \in {"none", "r", "q"} |-> IF r = "q" THEN "r" ELSE r]

-----------------------------------------------------------------------------
Steps == INSTANCE PipelineSteps
a == <<20>>
b == <<21>>
k == <<22>>
Entry(x) == Steps!Obj(<<<<a, x>>>>)
Listing(entries, x) == Steps!Obj(<<<<k, Steps!Arr(entries)>>, <<b, x>>>>)
One == Steps!Num(1)
Two == Steps!Num(2)
TwoText == Steps!Str(<<2>>)
Empty == Steps!Str(<<>>)

MCSources ==
  { Blank, Bad,
    Listing(<<Entry(Two), Steps!Obj(<<<<b, TwoText>>, <<a, One>>>>), Steps!Null, Entry(Empty),
              Steps!Obj(<<<<a, Two>>, <<b, Steps!Null>>>>)>>, Steps!Num(3)),
    Steps!Arr(<<Two, TwoText, One, Steps!Null, Two, Empty>>),
    Steps!Obj(<<<<k, Steps!Arr(<<Two, One>>)>>, <<b, One>>, <<k, Steps!Arr(<<>>)>>>>) }

OfK == <<<<"key", k>>>>
OfA == <<<<"key", a>>>>
Default == [id |-> 1, enabled |-> TRUE, type |-> "extract", path |-> <<>>, sortMode |-> "key", direction |-> "asc",
            arrayPath |-> <<>>, itemPath |-> <<>>, operator |-> "eq", matchMode |-> "key", filterValue |-> Blank,
            template |-> <<>>]
Typed(scalar, list) == [scalar |-> scalar, list |-> list]

Extract == [Default EXCEPT !.path = OfK]
Sort == [Default EXCEPT !.id = 2, !.type = "sort"]
ArraySort == [Default EXCEPT !.id = 3, !.type = "arraySort"]
Filter == [Default EXCEPT !.id = 4, !.type = "filter"]
Dedupe == [Default EXCEPT !.id = 5, !.type = "arrayDedupe"]
Trim == [Default EXCEPT !.id = 6, !.type = "arrayTrim", !.arrayPath = OfK]
Template == [Default EXCEPT !.id = 7, !.type = "template", !.template = <<<<"path", <<<<"key", b>>>>>>>>]
Off(s) == [s EXCEPT !.enabled = FALSE]

MCSteps ==
  { Extract, [Extract EXCEPT !.path = OfK \o <<<<"all", 0>>>> \o OfA], Off(Extract),
    [Sort EXCEPT !.direction = "desc"], [Sort EXCEPT !.sortMode = "value"],
    [ArraySort EXCEPT !.arrayPath = OfK, !.itemPath = OfA], [ArraySort EXCEPT !.direction = "desc"],
    [Filter EXCEPT !.arrayPath = OfK, !.itemPath = OfA, !.operator = "gt", !.filterValue = Typed(One, <<One>>)],
    [Filter EXCEPT !.operator = "excludes", !.filterValue = Typed(Bad, <<Two, Steps!Str(a)>>)],
    [Filter EXCEPT !.operator = "isEmpty", !.itemPath = Blank],
    [Filter EXCEPT !.operator = "stringLengthLt", !.filterValue = Typed(One, <<One>>)],
    [Dedupe EXCEPT !.arrayPath = OfK, !.itemPath = OfA], Dedupe,
    [Trim EXCEPT !.filterValue = Typed(Bad, <<Steps!Str(a)>>)],
    [Trim EXCEPT !.matchMode = "value", !.filterValue = Typed(Two, <<Two>>)],
    Template }
Fixed == {<<>>} \cup {<<s>> : s \in MCSteps} \cup {l \in MCSteps \X MCSteps : l[1].id \in {1, 2, 4} \ {l[2].id}}

Falling == [ArraySort EXCEPT !.direction = "desc"]
Changing ==
  { <<>>, <<Extract>>, <<Falling>>, <<Extract, Falling>>, <<Falling, Extract>>, <<Extract, Off(ArraySort)>>,
    <<Extract, Template>>, <<Extract, Falling, Template>>, <<Extract, Off(ArraySort), Template>> }
Near(l, m) ==
  IF Len(l) = Len(m) THEN Cardinality({i \in DOMAIN l : l[i] # m[i]}) <= 1 \/ m = Reverse(l)
  ELSE IsPrefix(l, m) \/ IsPrefix(m, l)
MCLists == Fixed \cup Changing
MCEdited == [l \in MCLists |-> {m \in Changing : l \in Changing /\ Near(l, m)}]

Engine == INSTANCE PipelineEngine WITH
  Sources <- MCSources, Lists <- MCLists, Edited <- MCEdited, MaxEdits <- 2, jobs <- computing
ASSUME EngineAssumption == Engine!EngineAssumption

-----------------------------------------------------------------------------
engine == <<doc, pipe, items, run, computing, edits>>
all == <<used, vars, engine>>

NoEngine == doc = None /\ pipe = None /\ items = None /\ run = None /\ computing = None /\ edits = None
AllInit ==
  /\ Init
  /\ \/ used = "window" /\ NoEngine
     \/ used = "engine" /\ Engine!Init /\ ~enabled /\ desired = [source |-> NoSource, rules |-> NoRules]
AllNext ==
  \/ used = "window" /\ Next /\ UNCHANGED <<used, engine>>
  \/ used = "engine" /\ Engine!Next /\ UNCHANGED <<used, vars>>

Window(A) == used = "window" /\ A
AllFairness ==
  /\ WF_vars(Window(FindSession \/ UpdateState)) /\ WF_vars(Window(Answer)) /\ WF_vars(Window(TimerFires))
  /\ WF_vars(Window(\E s \in closing : CloseSession(s)))
  /\ WF_vars(Window(\E j \in jobs : ComputeDropped(j) \/ ComputeEnds(j)))
  /\ WF_vars(Window(\E o \in opening : OpenHandled(o) \/ OpenAnswered(o)))
  /\ WF_vars(Window(\E e \in events : ResultArrives(e)))
AllSpec == AllInit /\ [][AllNext]_all /\ AllFairness

\* jsonpipelinestage.go, jsonpipelineservice.go, jsonpipelineengine.go: results
\* are those of the rules, and every step does what it is for.
ResultsAreOfTheRules ==
  used = "engine" => Engine!TypeOK /\ Engine!ResultsAreOfTheRules /\ Engine!StepsKeepTheirPromise
=============================================================================
