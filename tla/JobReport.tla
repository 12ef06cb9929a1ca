----------------------------- MODULE JobReport -----------------------------
(***************************************************************************)
(* What a crawl is for: the values that the parser extracts from a page as *)
(* the job's configuration asks, the result object that it stores for the  *)
(* task, and the reports that the export worker makes of a job's results.  *)
(* Contents follow from the configuration and the pages, so they are       *)
(* operators on the state of JobApi and not state of their own.            *)
(***************************************************************************)
EXTENDS JobApi

CONSTANTS
  Pages,      \* the document behind each URL
  TextOps,    \* what the operations on text make of a string
  NumberOps,  \* the number that an operation finds in a string, or Nil
  ParseBool,  \* strconv.ParseBool, Nil for an error
  ParsedURLs, \* the strings that url.Parse takes
  Resolved,   \* a reference resolved against a base, itself if one of them is no URL
  LimitArg,   \* the limit that an argument stands for, -1 for none
  Printed,    \* a number in decimals
  ByteOrder   \* rank of a string for sort.Strings

ASSUME ReportAssumption ==
  /\ DOMAIN TextOps = {"trim", "lower", "upper", "collapse_ws", "html_to_text", "normalize_url", "sha256"}
  /\ \A op \in DOMAIN TextOps : TextOps[op] \in [String -> String]
  /\ TextOps["trim"] = Trimmed
  /\ DOMAIN NumberOps = {"to_int", "to_float", "parse_price"}
  /\ \A op \in DOMAIN NumberOps : NumberOps[op] \in [String -> Opt(Uint)]
  /\ LimitArg \in [Opt(String) -> Int] /\ LimitArg[Nil] = -1
  /\ \A a, b \in String : ByteOrder[a] = ByteOrder[b] => a = b

-----------------------------------------------------------------------------
(* Values.  A list that was never appended to is Go's nil slice, which is  *)
(* not the same in JSON as an empty one.                                   *)

Error == <<"error">>
Nothing == <<"nil">>
Text(s) == <<"string", s>>
Slice(s) == <<"list", s>>
NilSlice == Slice(Nil)
SliceOf(s) == IF s = <<>> THEN NilSlice ELSE Slice(s)
Entries(v) == IF v = NilSlice THEN <<>> ELSE v[2]

\* An element of a document has a text, its inner HTML, attributes, and for
\* each selector the elements below it that match.
Find(element, selector) == IF selector \in DOMAIN element.below THEN element.below[selector] ELSE <<>>

-----------------------------------------------------------------------------
(* The parser: extractData. *)

extractElementValue(element, attribute, base) ==
  LET attr == TextOps["lower"][Trimmed[attribute]]
  IN  CASE attr \in {"", "text", "innertext"} -> Trimmed[element.text]
        [] attr \in {"html", "innerhtml"} -> Trimmed[element.html]
        [] attr \notin DOMAIN element.attrs -> ""
        [] attr \in {"href", "src"} -> Resolved[base][Trimmed[element.attrs[attr]]]
        [] OTHER -> Trimmed[element.attrs[attr]]

\* An index that no value has is ignored.
extractWithCSS(x, root, base) ==
  LET found == Find(root, x.selector)
      values == SelectSeq(Mapped(LAMBDA e : extractElementValue(e, x.attribute, base), found), LAMBDA s : s # "")
      at == IF x.index = Nil THEN 0 ELSE IF x.index < 0 THEN Len(values) + x.index + 1 ELSE x.index + 1
  IN  CASE found = <<>> -> Error
        [] x.multiple -> IF at \in DOMAIN values THEN Text(values[at]) ELSE SliceOf(values)
        [] OTHER -> Text(extractElementValue(Head(found), x.attribute, base))

extractWithCSSFromSelection(x, container, base) == extractWithCSS(x, container, base)

Unique(s) == FoldLeft(LAMBDA kept, t : IF t \in Range(kept) THEN kept ELSE Append(kept, t), <<>>, s)

\* An operation leaves a value that it is not made for as it is.
applyTransform(t, v) ==
  CASE v[1] = "string" /\ t.op \in DOMAIN TextOps -> Text(TextOps[t.op][v[2]])
    [] v[1] = "string" /\ t.op \in DOMAIN NumberOps /\ NumberOps[t.op][v[2]] # Nil ->
         IF t.op = "to_int" THEN <<"int", NumberOps[t.op][v[2]]>> ELSE <<"float", Float64(NumberOps[t.op][v[2]])>>
    [] v[1] = "list" /\ t.op = "unique" -> SliceOf(Unique(Entries(v)))
    [] v[1] = "list" /\ t.op = "limit" /\ LimitArg[t.arg] \in 0 .. Len(Entries(v)) - 1 ->
         Slice(SubSeq(Entries(v), 1, LimitArg[t.arg]))
    [] OTHER -> v

\* The same for a value of another type than the field's, unless it cannot
\* be converted.
convertToType(v, type) ==
  LET number(op) == NumberOps[op][v[2]]
  IN  CASE type = "string" /\ v[1] \in {"int", "float"} -> Text(Printed[v[2]])
        [] type = "int" /\ v[1] = "float" -> <<"int", v[2]>>
        [] type = "int" /\ v[1] = "string" -> IF number("to_int") = Nil THEN Error ELSE <<"int", number("to_int")>>
        [] type = "float" /\ v[1] = "int" -> <<"float", Float64(v[2])>>
        [] type = "float" /\ v[1] = "string" ->
             IF number("to_float") = Nil THEN Error ELSE <<"float", Float64(number("to_float"))>>
        [] type = "bool" /\ v[1] = "string" -> IF ParseBool[v[2]] = Nil THEN Error ELSE <<"bool", ParseBool[v[2]]>>
        [] type = "url" /\ v[1] = "string" -> IF v[2] \in ParsedURLs THEN v ELSE Error
        [] OTHER -> v

\* What becomes of a raw value.
Refined(f, raw) ==
  CASE raw = Error -> Error
    [] raw = Text("") -> Nothing
    [] OTHER -> convertToType(FoldLeft(LAMBDA v, t : applyTransform(t, v), raw, f.transforms), f.type)

extractField(f, doc, base) == Refined(f, extractWithCSS(f.extractor, doc, base))

extractFieldFromSelection(f, container, base) == Refined(f, extractWithCSSFromSelection(f.extractor, container, base))

\* The map that the loop over the fields fills: the last field of a name
\* counts, of those that are assigned.
Assigned(fields, values) ==
  LET ok == {i \in DOMAIN fields : values[i] # Error}
      last(name) == CHOOSE i \in ok : fields[i].name = name /\ \A k \in ok : fields[k].name = name => k <= i
  IN  [name \in {fields[i].name : i \in ok} |-> values[last(name)]]

\* A field that cannot be extracted is missing from its item.
extractItems(spec, doc, base) ==
  IF spec.containerSelector = "" THEN <<>>
  ELSE LET item(container) ==
             Assigned(spec.fields, [i \in DOMAIN spec.fields |-> extractFieldFromSelection(spec.fields[i], container, base)])
       IN  Mapped(item, Find(doc, spec.containerSelector))

\* A page field that cannot be extracted is nil.
extractData(task, spec) ==
  LET base == IF task.finalURL \in {Nil, ""} THEN task.url ELSE task.finalURL
      doc == Pages[task.url]
      value(f) == LET v == extractField(f, doc, base) IN IF v = Error THEN Nothing ELSE v
  IN  [fields |-> Assigned(spec.fields, [i \in DOMAIN spec.fields |-> value(spec.fields[i])]),
       items |-> IF spec.items = Nil THEN <<>> ELSE extractItems(spec.items, doc, base)]

\* JSON has one kind of number and writes the nil slice as null.  Fields or
\* items that are empty are left out, which reads the same.
ToJSON(v) ==
  CASE v = NilSlice -> Nothing [] v[1] \in {"int", "float"} -> <<"number", v[2]>> [] OTHER -> v

JSONObject(map) == [k \in DOMAIN map |-> ToJSON(map[k])]

uploadResultToS3(result) == [fields |-> JSONObject(result.fields), items |-> Mapped(JSONObject, result.items)]

-----------------------------------------------------------------------------
(* The export worker. *)

\* The result of a task.
TaskResult(task, fields, items, error) ==
  [taskId |-> task.id, url |-> task.url, status |-> task.status, fields |-> fields, items |-> items, error |-> error]

\* Every number of a JSON text becomes a float64.
FromJSON(v) == IF v[1] = "number" THEN <<"number", Float64(v[2])>> ELSE v

GoMap(object) == [k \in DOMAIN object |-> FromJSON(object[k])]

parseResultItems(items) == Mapped(GoMap, items)

\* ListByJob: the tasks in the order in which they were enqueued.
ListByJob(j) == Sorted(Tasks(j), [n \in Tasks(j) |-> <<Task(j, n).enqueuedAt, 0>>], TRUE)

ResultObject(j, n) ==
  uploadResultToS3(extractData(Task(j, n), RestoreCrawlJobConfigFromSnapshot(jobs[j].config).extractionSpec))

\* The objects of the tasks `unread` cannot be loaded from the content store.
loadTaskResults(j, unread) ==
  Mapped(LAMBDA n :
           LET t == Task(j, n)
               stored == t.status \in {"Completed", "Parsed"} /\ t.resultObjectKey \notin {Nil, ""}
           IN  CASE stored /\ n \notin unread ->
                      TaskResult(t, GoMap(ResultObject(j, n).fields), parseResultItems(ResultObject(j, n).items), "")
                 [] stored /\ n \in unread -> TaskResult(t, <<>>, <<>>, "failed to load result")
                 [] t.status = "Failed" -> TaskResult(t, <<>>, <<>>, "task failed during crawl/parse")
                 [] OTHER -> TaskResult(t, <<>>, <<>>, ""),
         ListByJob(j))

generateJSONReport(j, results) == [jobId |-> j, totalTasks |-> Len(results), results |-> results]

SortedNames(names) == SetToSortSeq(names, LAMBDA a, b : ByteOrder[a] < ByteOrder[b])

collectFieldNames(results) == SortedNames(UNION {DOMAIN results[i].fields : i \in DOMAIN results})

collectItemFieldNames(results) ==
  SortedNames(UNION UNION {{DOMAIN results[i].items[k] : k \in DOMAIN results[i].items} : i \in DOMAIN results})

\* A cell is a text or the JSON text of a list.
toCSVValue(v) ==
  CASE v = Nothing -> Text("")
    [] v[1] = "bool" -> Text(IF v[2] THEN "true" ELSE "false")
    [] v[1] = "number" -> Text(Printed[v[2]])
    [] OTHER -> v

\* Mutant: a value that is missing gets no cell.
CellsOfPresent(map, names) ==
  Mapped(LAMBDA name : toCSVValue(map[name]), SelectSeq(names, LAMBDA name : name \in DOMAIN map))

\* The cells of a map under the columns of its names.
Cells(map, names) ==
  Mapped(LAMBDA name : IF name \in DOMAIN map THEN toCSVValue(map[name]) ELSE Text(""), names)

\* The rows of one result: one per item, or one that has none.
CSVRows(result, fieldNames, itemFieldNames) ==
  LET base == Mapped(Text, <<result.taskId, result.url, result.status>>) \o Cells(result.fields, fieldNames)
      row(index, item) == base \o <<index>> \o Cells(item, itemFieldNames) \o <<Text(result.error)>>
  IN  IF result.items # <<>> THEN [i \in DOMAIN result.items |-> row(Text(Printed[i - 1]), result.items[i])]
      ELSE <<row(Text(""), <<>>)>>

\* The header, whose columns say what they are about, and the rows.
generateCSVReport(results) ==
  LET fieldNames == collectFieldNames(results)
      itemFieldNames == collectItemFieldNames(results)
      base == Mapped(LAMBDA name : <<"task", name>>, <<"task_id", "url", "status">>)
  IN  IF results = <<>> THEN <<base>>
      ELSE <<base \o Mapped(LAMBDA name : <<"field", name>>, fieldNames) \o <<<<"task", "item_index">>>>
              \o Mapped(LAMBDA name : <<"item", name>>, itemFieldNames) \o <<<<"task", "error">>>>>>
           \o FlattenSeq(Mapped(LAMBDA r : CSVRows(r, fieldNames, itemFieldNames), results))
-----------------------------------------------------------------------------
(* The value v as a reader of the report expects it. *)
Shown(v) ==
  CASE v \in {Nothing, NilSlice} -> Text("")
    [] v[1] \in {"int", "float"} -> Text(Printed[v[2]])
    [] v[1] = "bool" -> Text(IF v[2] THEN "true" ELSE "false")
    [] OTHER -> v

\* What the row of item i of a task must have under a column, x being what
\* was extracted from its page and can be loaded.
Expected(task, x, error, i, column) ==
  LET shown(map) == IF column[2] \in DOMAIN map THEN Shown(map[column[2]]) ELSE Text("")
  IN  CASE column[1] = "field" -> shown(x.fields)
        [] column[1] = "item" -> IF x.items = <<>> THEN Text("") ELSE shown(x.items[i])
        [] column[2] = "item_index" -> Text(IF x.items = <<>> THEN "" ELSE Printed[i - 1])
        [] column[2] = "error" -> Text(error)
        [] OTHER -> Text([task_id |-> task.id, url |-> task.url, status |-> task.status][column[2]])

\* The numbers of a map are not beyond those that a float64 holds exactly.
Exact(map) == \A k \in DOMAIN map : map[k][1] = "int" => map[k][2] <= 2 ^ FloatBits

\* The reports of job j without the results that cannot be loaded.
ReportTells(j, unread) ==
  LET results == loadTaskResults(j, unread)
      report == generateCSVReport(results)
      header == Head(report)
      extracted(n) == IF n \in unread THEN [fields |-> <<>>, items |-> <<>>]
                      ELSE extractData(Task(j, n), jobs[j].config.extractionSpec)
  IN  /\ \A r \in DOMAIN report : Len(report[r]) = Len(header)
      /\ generateJSONReport(j, results).totalTasks = Cardinality(Tasks(j))
      /\ \A n \in Tasks(j) :
           LET task == Task(j, n)
               x == extracted(n)
               rows == SelectSeq(Tail(report), LAMBDA row : row[1] = Text(task.id))
           IN  /\ Len(rows) = IF x.items = <<>> THEN 1 ELSE Len(x.items)
               /\ {<<"field", k>> : k \in DOMAIN x.fields} \subseteq Range(header)
               /\ \A i \in DOMAIN x.items : {<<"item", k>> : k \in DOMAIN x.items[i]} \subseteq Range(header)
               /\ Exact(x.fields) /\ (\A i \in DOMAIN x.items : Exact(x.items[i])) =>
                    \A i \in DOMAIN rows, c \in DOMAIN header :
                      rows[i][c] = Expected(task, x, IF n \in unread THEN "failed to load result" ELSE "", i, header[c])

Exports(j) == jobs[j].job.exportedAt = Nil /\ j \in Present' /\ jobs'[j].job.exportedAt # Nil

\* generateCSVReport, behind extractData, uploadResultToS3 and
\* loadTaskResults, whenever the export worker exports a job: whatever fields
\* are missing on some pages or in some of their items and whichever results
\* cannot be loaded, the report has a row for each item, or one for a task
\* without any, every row is as wide as the header, and under each column it
\* has what was extracted for it, as long as no integer is beyond the 2^53
\* that a float64 holds exactly.
ReportTellsResults ==
  [][\A j \in Present : Exports(j) => \A unread \in SUBSET Tasks(j) : ReportTells(j, unread)]_apiVars
=============================================================================
