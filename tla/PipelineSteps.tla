---------------------------- MODULE PipelineSteps ----------------------------
(***************************************************************************)
(* What the steps of a JSON pipeline do to a value: jsonpipelineengine.go, *)
(* and the values of jsonvalue.go.                                         *)
(*                                                                         *)
(* A value is a pair of its kind and what it holds; an object holds the    *)
(* sequence of its members, and a name may occur twice (parseObject keeps  *)
(* both).  A text is a sequence of letters, which are numbers: 0 to 9 are  *)
(* the digits.  A path is the sequence of its tokens, Blank, or Bad if it  *)
(* cannot be parsed.  What is typed as the value of a filter is the record *)
(* of what it reads as: one value (scalar), or a list of them.             *)
(***************************************************************************)
EXTENDS Integers, Sequences, FiniteSets, SequencesExt

CONSTANTS None,        \* nil
          Blank, Bad   \* what is empty, and what cannot be read

Null == <<"null", 0>>
Bool(b) == <<"bool", b>>
Num(n) == <<"number", n>>
Str(text) == <<"string", text>>
Arr(items) == <<"array", items>>
Obj(members) == <<"object", members>>

Kind(v) == v[1]
Held(v) == v[2]
IsArray(v) == Kind(v) = "array"
IsObject(v) == Kind(v) = "object"
IsScalar(v) == Kind(v) \notin {"array", "object"}
Child(v, i) == IF IsArray(v) THEN Held(v)[i] ELSE Held(v)[i][2]

First(places) == IF places = {} THEN 0 ELSE Min(places)

\* The first member of that name, 0 if there is none.
member(v, key) == IF IsObject(v) THEN First({i \in DOMAIN Held(v) : Held(v)[i][1] = key}) ELSE 0

\* What a step returns: a value, or the code of its error.
Found(v) == [value |-> v, fault |-> None]
Fault(code) == [value |-> None, fault |-> code]
FirstFault(results) ==
  LET n == First({i \in DOMAIN results : results[i].fault # None})
  IN IF n = 0 THEN None ELSE results[n].fault

\* The values of results, or the first fault among them.
Gathered(results) == IF FirstFault(results) # None THEN Fault(FirstFault(results))
                     ELSE Found([i \in DOMAIN results |-> results[i].value])
\* What a value is turned into, unless there is a fault.
AsArray(result) == IF result.fault # None THEN result ELSE Found(Arr(result.value))
AsText(result) == IF result.fault # None THEN result ELSE Found(Str(FlattenSeq(result.value)))

(***************************************************************************)
(* Paths.                                                                  *)
(***************************************************************************)
RECURSIVE readTokens(_, _)
readTokens(v, tokens) ==
  IF tokens = <<>> THEN Found(v)
  ELSE LET what == Head(tokens)[1]
           name == Head(tokens)[2]
           rest == Tail(tokens)
       IN CASE what = "all" ->
                 IF IsScalar(v) THEN Fault("notContainer")
                 ELSE AsArray(Gathered([i \in DOMAIN Held(v) |-> readTokens(Child(v, i), rest)]))
            [] what = "index" ->
                 IF ~IsArray(v) THEN Fault("notArray")
                 ELSE IF name \notin 0..(Len(Held(v)) - 1) THEN Fault("indexOutOfRange")
                 ELSE readTokens(Held(v)[name + 1], rest)
            [] what = "key" ->
                 IF member(v, name) = 0 THEN Fault("pathNotFound")
                 ELSE readTokens(Child(v, member(v, name)), rest)

\* v with new where the tokens lead, which they do, without a wildcard.  Every
\* member of the name gets it.
RECURSIVE updatePath(_, _, _)
updatePath(v, tokens, new) ==
  IF tokens = <<>> THEN new
  ELSE LET name == Head(tokens)[2]
           i == IF IsArray(v) THEN name + 1 ELSE member(v, name)
           next == updatePath(Child(v, i), Tail(tokens), new)
       IN IF IsArray(v) THEN Arr([Held(v) EXCEPT ![i] = next])
          ELSE Obj([n \in DOMAIN Held(v) |-> IF Held(v)[n][1] = name THEN <<name, next>> ELSE Held(v)[n]])

Reported(read, kind) ==
  CASE read.fault = None -> read
    [] read.fault = "indexOutOfRange" -> Fault("pathIndexOutOfRange")
    [] read.fault = "pathNotFound" /\ kind = "template" -> Fault("templatePathNotFound")
    [] OTHER -> Fault("pathNotFound")

readPath(v, path, kind) ==
  CASE path = Blank -> Fault("pathRequired")
    [] path = Bad -> Fault("invalidPath")
    [] OTHER -> Reported(readTokens(v, path), kind)

\* The paths that must lead to one place.
pathTokens(path, required) ==
  CASE path = Blank -> Fault(required)
    [] path = Bad -> Fault("invalidPath")
    [] OTHER -> IF \E i \in DOMAIN path : path[i][1] = "all" THEN Fault("pathMultiple") ELSE Found(path)

ArrayTokens(s) == pathTokens(s.arrayPath, "arrayPathRequired")
ItemTokens(s) == pathTokens(s.itemPath, "itemPathRequired")

\* The array a step works on, if it was read.
ArrayRead(read) ==
  CASE read.fault # None -> Fault("arrayPathNotFound")
    [] read.fault = None /\ ~IsArray(read.value) -> Fault("arrayPathInvalid")
    [] OTHER -> read
TargetArray(v, s) == IF ArrayTokens(s).fault # None THEN ArrayTokens(s) ELSE ArrayRead(readTokens(v, s.arrayPath))
Entries(v, s) == Held(readTokens(v, s.arrayPath).value)

\* The first fault of a step on an array, or v with new entries in it.
Rewritten(v, s, results, new) ==
  IF FirstFault(results) # None THEN Fault(FirstFault(results))
  ELSE Found(updatePath(v, s.arrayPath, Arr(new)))

\* The key of an entry of that array.
KeyOf(entry, s) == readTokens(entry, s.itemPath)

(***************************************************************************)
(* Order.                                                                  *)
(***************************************************************************)
compareText(a, b) ==
  CASE a = b -> 0
    [] a # b /\ IsPrefix(a, b) -> -1
    [] a # b /\ IsPrefix(b, a) -> 1
    [] OTHER -> LET i == CHOOSE n \in DOMAIN a : a[n] # b[n] /\ \A m \in 1..(n - 1) : a[m] = b[m]
                IN a[i] - b[i]

scalarRank == [null |-> 0, bool |-> 1, number |-> 2, string |-> 3]

compareScalars(a, b) ==
  IF Kind(a) # Kind(b) THEN scalarRank[Kind(a)] - scalarRank[Kind(b)]
  ELSE CASE Held(a) = Held(b) -> 0
         [] Kind(a) = "bool" -> IF Held(a) THEN 1 ELSE -1
         [] Kind(a) = "number" -> Held(a) - Held(b)
         [] OTHER -> compareText(Held(a), Held(b))

\* s with what is at these places in the order of a comparison of them, and the
\* rest where it was; what compares equal stays in order.
Sorted(s, places, compare, direction) ==
  LET Before(i, j) == IF compare[i, j] = 0 THEN i < j
                      ELSE IF direction = "desc" THEN compare[i, j] > 0 ELSE compare[i, j] < 0
      Rank(i) == Cardinality({j \in places : Before(j, i)})
      Place(i) == Cardinality({j \in places : j < i})
  IN [k \in DOMAIN s |-> IF k \in places THEN s[CHOOSE i \in places : Rank(i) = Place(k)] ELSE s[k]]
StableSorted(s, compare, direction) == Sorted(s, DOMAIN s, compare, direction)

\* The entries at these places, in order.
Picked(s, places) == LET order == SetToSortSeq(places, <)
                     IN [k \in DOMAIN order |-> s[order[k]]]

\* A name that occurs twice gets its last value twice.
RECURSIVE sortKeys(_, _)
sortKeys(v, direction) ==
  CASE IsArray(v) -> Arr([i \in DOMAIN Held(v) |-> sortKeys(Held(v)[i], direction)])
    [] IsScalar(v) -> v
    [] IsObject(v) ->
         LET m == Held(v)
             keys == StableSorted([i \in DOMAIN m |-> m[i][1]], [i, j \in DOMAIN m |-> compareText(m[i][1], m[j][1])], direction)
             Value(key) == m[Max({i \in DOMAIN m : m[i][1] = key})][2]
         IN Obj([i \in DOMAIN keys |-> <<keys[i], sortKeys(Value(keys[i]), direction)>>])

RECURSIVE sortValues(_, _)
sortValues(v, direction) ==
  LET m == Held(v) IN
  CASE IsScalar(v) -> v
    [] IsObject(v) -> Obj([i \in DOMAIN m |-> <<m[i][1], sortValues(m[i][2], direction)>>])
    [] IsArray(v) -> Arr(IF \A i \in DOMAIN m : IsScalar(m[i])
                         THEN StableSorted(m, [i, j \in DOMAIN m |-> compareScalars(m[i], m[j])], direction)
                         ELSE [i \in DOMAIN m |-> sortValues(m[i], direction)])

executeSort(v, s) ==
  IF IsScalar(v) THEN Fault("sortRequiresContainer")
  ELSE Found(IF s.sortMode = "value" THEN sortValues(v, s.direction) ELSE sortKeys(v, s.direction))

\* What has no scalar key keeps its place.
Sortable(entry, s) == Kind(entry) # "null" /\ KeyOf(entry, s).fault = None /\ IsScalar(KeyOf(entry, s).value)

SortedByKey(old, places, s) ==
  Sorted(old, places, [i, j \in places |-> compareScalars(KeyOf(old[i], s).value, KeyOf(old[j], s).value)], s.direction)

executeArraySort(v, s) ==
  Rewritten(v, s, <<ArrayTokens(s), ItemTokens(s), TargetArray(v, s)>>,
            LET old == Entries(v, s) IN SortedByKey(old, {i \in DOMAIN old : Sortable(old[i], s)}, s))

(***************************************************************************)
(* Duplicates.                                                             *)
(***************************************************************************)
\* pipelineValueKey gives the same text for exactly the values this makes equal.
RECURSIVE Canonical(_)
Canonical(v) ==
  LET m == Held(v) IN
  CASE IsScalar(v) -> v
    [] IsArray(v) -> Arr([i \in DOMAIN m |-> Canonical(m[i])])
    [] IsObject(v) -> Obj(StableSorted([i \in DOMAIN m |-> <<m[i][1], Canonical(m[i][2])>>],
                                       [i, j \in DOMAIN m |-> compareText(m[i][1], m[j][1])], "asc"))

SameKey(a, b, s) ==
  /\ KeyOf(a, s).fault = None /\ KeyOf(b, s).fault = None
  /\ Canonical(KeyOf(a, s).value) = Canonical(KeyOf(b, s).value)

executeArrayDedupe(v, s) ==
  Rewritten(v, s, <<ArrayTokens(s), ItemTokens(s), TargetArray(v, s)>>,
            LET old == Entries(v, s)
            IN Picked(old, {i \in DOMAIN old : ~\E j \in 1..(i - 1) : SameKey(old[j], old[i], s)}))

(***************************************************************************)
(* Members and entries by value.                                           *)
(***************************************************************************)
\* StringifyJSON of what a template shows, in letters of its own.
RECURSIVE Stringify(_)
Stringify(v) ==
  CASE Kind(v) = "null" -> <<10>>
    [] Kind(v) = "bool" -> <<IF Held(v) THEN 11 ELSE 12>>
    [] Kind(v) = "number" -> <<Held(v)>>
    [] Kind(v) = "string" -> <<13>> \o Held(v) \o <<13>>
    [] OTHER -> <<14>> \o FlattenSeq([i \in DOMAIN Held(v) |->
                  (IF IsObject(v) THEN Held(v)[i][1] ELSE <<>>) \o Stringify(Child(v, i))]) \o <<15>>

Text(v) == IF Kind(v) = "string" THEN Held(v) ELSE Stringify(v)

parseFilterList(s) ==
  IF s.filterValue = Blank \/ s.filterValue.list = <<>> THEN Fault("filterValueRequired") ELSE Found(s.filterValue.list)

parseFilterValue(s) ==
  CASE s.filterValue = Blank -> Fault("filterValueRequired")
    [] s.filterValue # Blank /\ s.filterValue.scalar = Bad -> Fault("filterValueInvalid")
    [] OTHER -> Found(s.filterValue.scalar)

Listed(v, list) ==
  IsScalar(v) /\ \E i \in DOMAIN list : Kind(v) = Kind(list[i]) /\ compareScalars(v, list[i]) = 0

Trimmed(entry, values, mode) ==
  LET Keep(m) == IF mode = "value" THEN Listed(m[2], values)
                 ELSE \E i \in DOMAIN values : Text(values[i]) = m[1]
  IN IF IsObject(entry) THEN Obj(Picked(Held(entry), {i \in DOMAIN Held(entry) : Keep(Held(entry)[i])})) ELSE entry

executeArrayTrim(v, s) ==
  Rewritten(v, s, <<ArrayTokens(s), parseFilterList(s), TargetArray(v, s)>>,
            LET old == Entries(v, s)
            IN [i \in DOMAIN old |-> Trimmed(old[i], parseFilterList(s).value, s.matchMode)])

ListOperators == {"includes", "excludes"}
UnaryOperators == {"notNull", "notEmpty", "isNull", "isEmpty"}
\* The comparison of the lengths of strings, for each operator that is one.
LengthBase == [stringLengthGt |-> "gt", stringLengthGte |-> "gte", stringLengthEq |-> "eq",
               stringLengthLt |-> "lt", stringLengthLte |-> "lte"]

emptyJSONValue(v) == Kind(v) = "null" \/ (Kind(v) \in {"string", "array", "object"} /\ Held(v) = <<>>)

filterComparisonMatches(c, operator) ==
  CASE operator = "gt" -> c > 0
    [] operator = "gte" -> c >= 0
    [] operator = "lt" -> c < 0
    [] operator = "lte" -> c <= 0
    [] OTHER -> c = 0

\* What a filter compares with: a list, nothing, or one value.
Expected(s) ==
  CASE s.operator \in ListOperators -> parseFilterList(s)
    [] s.operator \in UnaryOperators -> Found(Null)
    [] OTHER ->
         LET value == parseFilterValue(s) IN
         IF value.fault = None /\ s.operator \in DOMAIN LengthBase /\ (Kind(value.value) # "number" \/ Held(value.value) < 0)
         THEN Fault("filterLengthInvalid") ELSE value

\* Whether an entry with key v is one to keep.
Matches(v, operator, expected) ==
  CASE operator = "includes" -> Listed(v, expected)
    [] operator = "excludes" -> ~Listed(v, expected)
    [] operator = "notNull" -> Kind(v) # "null"
    [] operator = "isNull" -> Kind(v) = "null"
    [] operator = "notEmpty" -> ~emptyJSONValue(v)
    [] operator = "isEmpty" -> emptyJSONValue(v)
    [] operator \in DOMAIN LengthBase ->
         Kind(v) = "string" /\ filterComparisonMatches(Len(Held(v)) - Held(expected), LengthBase[operator])
    [] OTHER -> IsScalar(v) /\ Kind(v) = Kind(expected) /\ filterComparisonMatches(compareScalars(v, expected), operator)

\* An entry without the key is not among the values to exclude.
KeptFor(key, s) ==
  IF key.fault # None THEN s.operator = "excludes" ELSE Matches(key.value, s.operator, Expected(s).value)
Kept(entry, s) == KeptFor(KeyOf(entry, s), s)

\* Without a path to a key the entries themselves are compared.
Keyed(s) == IF s.itemPath = Blank THEN [s EXCEPT !.itemPath = <<>>] ELSE s

executeFilter(v, s) ==
  Rewritten(v, s, <<TargetArray(v, s), ItemTokens(Keyed(s)), Expected(s)>>,
            LET old == Entries(v, s) IN Picked(old, {i \in DOMAIN old : Kept(old[i], Keyed(s))}))

(***************************************************************************)
(* Templates: letters, and paths whose values take their place.            *)
(***************************************************************************)
Shown(read) ==
  CASE read.fault # None -> read
    [] read.fault = None /\ IsArray(read.value) -> Fault("templateArrayValue")
    [] OTHER -> Found(Text(read.value))

executeTemplate(v, s) ==
  CASE s.template = <<>> -> Fault("templateRequired")
    [] s.template # <<>> /\ ~IsObject(v) -> Fault("templateRequiresObject")
    [] OTHER -> AsText(Gathered([i \in DOMAIN s.template |->
                  IF s.template[i][1] = "letters" THEN Found(s.template[i][2])
                  ELSE Shown(readPath(v, s.template[i][2], "template"))]))

executePipelineItem(v, s) ==
  CASE s.type = "extract" -> readPath(v, s.path, "path")
    [] s.type = "sort" -> executeSort(v, s)
    [] s.type = "arraySort" -> executeArraySort(v, s)
    [] s.type = "filter" -> executeFilter(v, s)
    [] s.type = "arrayDedupe" -> executeArrayDedupe(v, s)
    [] s.type = "arrayTrim" -> executeArrayTrim(v, s)
    [] s.type = "template" -> executeTemplate(v, s)
==============================================================================
