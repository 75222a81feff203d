------------------------------ MODULE Workspace ------------------------------
(***************************************************************************)
(* One step of a task as the files see it: the model's answer is decoded   *)
(* into an action (retina-llm-claude), the state it tracks is captured,    *)
(* the policy admits it (ScopedShell), the shell carries it out (CliShell  *)
(* and file_ops.rs), the state is captured again and compared.             *)
(*                                                                         *)
(* No call of the shell is atomic: a capture asks for the metadata and     *)
(* then reads, a write looks for the file and then opens it, a traversal   *)
(* visits entry by entry.  In between, processes that earlier commands     *)
(* left behind, and the operator's editor, change the same files.          *)
(*                                                                         *)
(* A place is the sequence of its path components.  A text is a sequence   *)
(* of units; a unit stands for a byte, a line, a row or a page, whichever  *)
(* the operation counts.  Modification times are compared only within a    *)
(* step, so `touched`, the places modified since the step's first capture, *)
(* stands for them.                                                        *)
(***************************************************************************)
EXTENDS Naturals, FiniteSets, SequencesExt

CONSTANTS
  Cwd,          \* the working directory of the process
  Home,         \* dirs::home_dir()
  Folder,       \* Folder[alias]: where a known folder is
  Place,        \* the places files and directories may be at
  Leads,        \* Leads[path]: where the system takes a path with `..` in it, or
                \* through a symbolic link; it takes any other as it stands
  Extension,    \* Extension[path] in Extensions, by the last component
  Tree,         \* what may be on the disk when the step begins
  Task,         \* what the operator may have asked for
  Reply,        \* what the model's service may send
  Authorities,  \* what a manifest may permit
  ReadLimit,    \* DEFAULT_MAX_READ_BYTES
  RowLimit,     \* DEFAULT_MAX_STRUCTURED_ROWS
  ListLimit,    \* DEFAULT_MAX_LIST_ENTRIES
  SearchLimit,  \* DEFAULT_MAX_SEARCH_RESULTS
  ScanLimit,    \* the size above which search_text skips a file
  TextShown,    \* units of a text the reasoner is shown
  EntriesShown, \* entries of a listing, files found
  MatchesShown, \* lines found
  Foreign,      \* places other processes change
  ForeignText,  \* texts they write
  MaxLen        \* bound: no append makes a text longer

Extensions == {"pdf", "table", "text", "other"}

ASSUME WorkspaceAssumption ==
  /\ Cwd \in Place /\ Foreign \subseteq Place
  /\ Leads \in [DOMAIN Leads -> Place] /\ DOMAIN Leads \cap Place = {}
  /\ Extension \in [Place \cup DOMAIN Leads -> Extensions]
  /\ {ReadLimit, RowLimit, ListLimit, SearchLimit, ScanLimit, TextShown,
      EntriesShown, MatchesShown} \subseteq Nat \ {0}
  /\ MaxLen \in Nat

VARIABLES
  fs,         \* what is at each place
  authority,  \* the manifest's AgentAuthority
  pc,         \* where the step is
  said,       \* the model's answer, as parsed
  pre,        \* the first snapshot of the tracked path: {} or {PathState}
  post,       \* the second one
  last,       \* last_command of the shell
  lastPre,    \* last_command in the first snapshot
  existed,    \* existed_before of a write
  todo,       \* entries a traversal has listed and not visited
  found,      \* what it has collected
  result,     \* what the shell returned
  delta,      \* what the comparison said
  touched,    \* places modified since the first capture
  meddled,    \* history: other processes modified some of them
  base,       \* history: the tracked file when the first capture was done
  final       \* history: and when the second one began

world    == <<fs, authority, last>>
capture  == <<pre, post, lastPre>>
walk     == <<todo, found>>
history  == <<base, final>>
vars == <<world, pc, said, capture, existed, walk, result, delta, touched,
          meddled, history>>

Unit == {"x", "y", "nul"}
None == [kind |-> "none", text |-> <<>>]
Dir  == [kind |-> "dir", text |-> <<>>]
File(t) == [kind |-> "file", text |-> t]

Texts == UNION {[1..n -> Unit] : n \in 0..MaxLen}
Node  == {None, Dir} \cup {File(t) : t \in Texts}

Exists(p) == fs[p].kind # "none"
IsFile(p) == fs[p].kind = "file"
IsDir(p)  == fs[p].kind = "dir"
Binary(t) == "nul" \in ToSet(t)
Within(dir, p) == IsPrefix(dir, p)
Above(p) == {q \in Place : Within(q, p) /\ q # p}
Children(d) == {p \in Place : p # d /\ Exists(p) /\ Front(p) = d}
Least(m, n) == IF m < n THEN m ELSE n
Most(m, n)  == IF m > n THEN m ELSE n
-----------------------------------------------------------------------------
(* From the model's reply to an action.                                    *)

\* call_claude and extract_json_blob: an HTTP success with a text block whose
\* text is JSON, fenced JSON, or JSON between the outermost braces.
Usable(r) == r.status = "ok" /\ r.shape \in {"json", "fenced", "wrapped"}

\* plan_task: no task, a greeting or a question about the agent itself is
\* answered without the model.
Planned(task) ==
  IF task \in {"none", "greeting", "capabilities"} THEN {[type |-> "respond"]} ELSE {}

\* The answer a step begins with; {} when there is none.
Answers(task, r) ==
  IF Planned(task) # {} THEN Planned(task)
  ELSE IF Usable(r) THEN {r.answer} ELSE {}

Ops == {"run_command", "inspect_path", "list_directory", "find_files",
        "search_text", "read_file", "ingest_structured_data",
        "extract_document_text", "write_file", "append_file", "record_note"}
Walks  == {"list_directory", "find_files", "search_text"}
Writes == {"write_file", "append_file"}

\* An unknown type is an answer to the operator.
Op == IF said.type \in Ops THEN said.type ELSE "respond"

\* A field of the answer, or the default when the model left it out.
Arg(f, default) == IF f \in DOMAIN said THEN said[f] ELSE default
Given(f) == f \in DOMAIN said

\* The path an action is about: "." or, for writes, "retina-output.txt".
Named ==
  CASE Op \in {"find_files", "search_text"} -> Arg("root", <<>>)
    [] Op \in Writes -> Arg("path", <<"retina-output.txt">>)
    [] OTHER -> Arg("path", <<>>)

Overwrite == Arg("overwrite", FALSE)

\* Action::expects_change, with the decoder's default for commands.
ExpectsChange ==
  IF Op = "run_command" THEN Arg("expect_change", Given("path"))
  ELSE Op \in Writes

\* Variant: appends are not tracked.
TrackedNoAppend ==
  CASE Op = "run_command" -> IF Given("path") THEN {Named} ELSE {}
    [] Op \in {"record_note", "respond", "append_file"} -> {}
    [] OTHER -> {Named}

\* Action::hash_scope: at most one path.
Tracked ==
  CASE Op = "run_command" -> IF Given("path") THEN {Named} ELSE {}
    [] Op \in {"record_note", "respond"} -> {}
    [] OTHER -> {Named}

\* TrackedPath::include_content
WithContent ==
  IF Op = "inspect_path" THEN Arg("include_content", TRUE) ELSE Op \notin Walks

\* The number of results an action may return, at least one.
Cap ==
  IF Op = "list_directory"
  THEN Most(1, Least(Arg("max_entries", ListLimit), ListLimit))
  ELSE Most(1, Least(Arg("max_results", SearchLimit), SearchLimit))

\* resolve_path and expand_homeish_path: the home directory, a known folder
\* (also under ~), an absolute path, or a path below the working directory.
\* Nothing is looked up: `..` and the names of symbolic links stay in the path.
Resolve(n) ==
  LET m == IF n # <<>> /\ Head(n) = "~" THEN Tail(n) ELSE n
  IN  IF n = <<>> THEN Cwd
      ELSE IF m # <<>> /\ Head(m) \in DOMAIN Folder THEN Folder[Head(m)] \o Tail(m)
      ELSE IF Head(n) = "~" THEN Home \o m
      ELSE IF n \in Place \cup DOMAIN Leads THEN n
      ELSE Cwd \o n

\* Where the system gets to along a path.
Reached(path) == IF path \in DOMAIN Leads THEN Leads[path] ELSE path

\* What the name of a path leads to.
At(n) == Reached(Resolve(n))

Target == At(Named)

\* Paths are strings of components; whatever lies between two places is a place.
\* A place is where a file is, by the one path that is neither roundabout nor
\* through a link.
ASSUME PathsAssumption ==
  /\ Place \cup DOMAIN Leads \cup {Home} \cup {Folder[f] : f \in DOMAIN Folder} \subseteq Seq(STRING)
  /\ \A a \in Authorities : a.roots \subseteq Seq(STRING)
  /\ \A p \in Place : Above(p) # {} => Front(p) \in Place
  /\ \A p \in Foreign : Above(p) # {}

\* A tree has every file in a directory.
FileTree(t) ==
  /\ t \in [Place -> Node]
  /\ \A p \in Place : t[p].kind # "none" => \A q \in Above(p) : t[q].kind = "dir"

ASSUME TreesAssumption ==
  /\ \A t \in Tree : FileTree(t)
  /\ ForeignText \subseteq Texts

Numbers == {"max_bytes", "max_rows", "max_chars", "max_entries", "max_results",
            "page_start", "page_end"}

\* A field the decoder takes for a path, a number or a content is one: others
\* count as left out.  The paths the model names lead to places.
Decoded(answer) ==
  /\ \A f \in {"path", "root"} \cap DOMAIN answer : At(answer[f]) \in Place
  /\ \A f \in Numbers \cap DOMAIN answer : answer[f] \in Nat
  /\ "content" \in DOMAIN answer => answer.content \in Seq(Unit)

ASSUME RepliesAssumption ==
  /\ At(<<"retina-output.txt">>) \in Place
  /\ \A r \in Reply : Decoded(r.answer)
-----------------------------------------------------------------------------
(* The policy.                                                             *)

Permission ==
  CASE Op = "run_command" -> "commands"
    [] Op \in {"find_files", "search_text"} -> "search"
    [] Op \in Writes -> "writes"
    [] Op = "record_note" -> "notes"
    [] Op = "respond" -> "text"
    [] OTHER -> "reads"

\* Variant: takes every path to be below the working directory.
PathAllowedUnexpanded(n) ==
  \/ authority.roots = {}
  \/ \E r \in authority.roots : Within(Resolve(r), Cwd \o n)

\* ensure_path_allowed: no roots means everything.  The paths are compared
\* component by component as they are written.
PathAllowed(n) ==
  \/ authority.roots = {}
  \/ \E r \in authority.roots : Within(Resolve(r), Resolve(n))

\* validate_action
Permitted ==
  /\ Permission \in authority.permits
  /\ \A n \in Tracked : PathAllowed(n)
-----------------------------------------------------------------------------
(* Snapshots.                                                              *)

\* inspect_path_state, before the content is read.
Stat(p, modified) ==
  [exists |-> Exists(p), size |-> Len(fs[p].text), modified |-> modified, hash |-> {}]

\* Variant: by existence and size only.
FingerprintBySize(s) == <<s.exists, s.size>>

\* path_fingerprint
Fingerprint(s) == <<s.exists, s.size, s.modified, s.hash>>

\* compare_state: the paths whose fingerprint moved.
ChangedPaths ==
  {n \in Tracked : {Fingerprint(s) : s \in pre} # {Fingerprint(s) : s \in post}}

\* A command's scope includes the shell's last command; no operation changes
\* the working directory of the process.
CommandChanged == Op = "run_command" /\ last # lastPre

DeltaKind ==
  IF ChangedPaths = {} /\ ~CommandChanged THEN "unchanged"
  ELSE IF ExpectsChange THEN "as_expected" ELSE "unexpected"

Nothing == [ok |-> FALSE, text |-> <<>>, truncated |-> FALSE]
Done    == [Nothing EXCEPT !.ok = TRUE]
Silence == [type |-> "respond"]
NoDelta == [kind |-> "none", changed |-> {}]

Init ==
  /\ fs \in Tree /\ authority \in Authorities
  /\ pc = "idle" /\ said = Silence
  /\ pre = {} /\ post = {} /\ last = 0 /\ lastPre = 0 /\ existed = FALSE
  /\ todo = {} /\ found = {}
  /\ result = Nothing /\ delta = NoDelta
  /\ touched = {} /\ meddled = FALSE
  /\ base = None /\ final = None

\* A change of the files: g is what is there afterwards, P the places written.
\* A directory is modified when an entry of it comes or goes.
Modified(g, P) ==
  P \cup {d \in Place : \E p \in Place :
            /\ p # d /\ Front(p) = d
            /\ (g[p] = None) # (fs[p] = None)}

Become(g, P) ==
  /\ fs' = g
  /\ touched' = touched \cup Modified(g, P)
  /\ UNCHANGED <<authority, meddled>>

\* Nothing outside the kernel and its loop changes.
Still == UNCHANGED <<world, touched, meddled>>

\* The step is over and what it knew is forgotten; without a comparison, it
\* ended in an error or a failed action.
Over ==
  /\ pc' = "idle" /\ said' = Silence
  /\ pre' = {} /\ post' = {} /\ lastPre' = 0 /\ existed' = FALSE
  /\ todo' = {} /\ found' = {}
  /\ result' = Nothing /\ delta' = NoDelta
  /\ touched' = {} /\ meddled' = FALSE /\ base' = None /\ final' = None
  /\ UNCHANGED <<authority, last>>

Fail == Over /\ UNCHANGED fs

\* The shell has answered; what is left is the second capture.
Answered(r) ==
  /\ pc' = "recapture" /\ result' = r
  /\ UNCHANGED <<said, capture, existed, todo, found, delta, history>>

Goto(place) ==
  /\ pc' = place
  /\ UNCHANGED <<said, capture, existed, todo, found, result, delta, history, last>>
-----------------------------------------------------------------------------
(* The step.                                                               *)

\* ClaudeReasoner::reason
Reason(task, r) ==
  /\ pc = "idle"
  /\ said' \in Answers(task, r)
  /\ pc' = "capture"
  /\ UNCHANGED <<world, capture, existed, walk, result, delta, touched,
                 meddled, history>>

\* An HTTP error, no text block, or no JSON: the planning call fails.
ReasonFails(task, r) ==
  /\ pc = "idle"
  /\ Answers(task, r) = {}
  /\ Fail

\* capture_state of the policy, then of the shell: existence and metadata.
\* A tracked path outside the authority is an error before anything ran.
CapturePre ==
  /\ pc = "capture"
  /\ IF \A n \in Tracked : PathAllowed(n)
     THEN /\ pre' = {Stat(At(n), FALSE) : n \in Tracked}
          /\ pc' = IF \E n \in Tracked : WithContent /\ IsFile(At(n))
                   THEN "hash" ELSE "execute"
          /\ lastPre' = IF Op = "run_command" THEN last ELSE 0
          /\ base' = IF Tracked = {} THEN None ELSE fs[Target]
          /\ touched' = {} /\ meddled' = FALSE
          /\ UNCHANGED <<world, said, post, existed, walk, result, delta, final>>
     ELSE Fail

\* The content is read after the metadata; the file may be gone by then.
HashPre ==
  /\ pc = "hash"
  /\ IF IsFile(Target)
     THEN /\ pre' = {[s EXCEPT !.hash = {fs[Target].text}] : s \in pre}
          /\ base' = fs[Target]
          /\ pc' = "execute"
          /\ Still
          /\ UNCHANGED <<said, post, lastPre, existed, todo, found, result,
                         delta, final>>
     ELSE Fail

\* execute_controlled of the policy: a failed action, the loop goes on.
Refuse ==
  /\ pc = "execute"
  /\ ~Permitted
  /\ Fail
-----------------------------------------------------------------------------
(* Reading.                                                                *)

Executing(op) == pc = "execute" /\ Permitted /\ Op = op

Prefix(t, n) == SubSeq(t, 1, Least(Len(t), n))

\* Variant: reads no more than the limit, and so never sees more.
ReadTextExact(t, limit) ==
  LET buffer == Prefix(t, limit)
  IN [ok |-> TRUE, text |-> buffer, truncated |-> Len(buffer) > limit]

\* read_file reads one unit more than the limit, to see whether there is more.
ReadText(t, limit) ==
  LET buffer == Prefix(t, limit + 1)
  IN [ok |-> TRUE, text |-> Prefix(buffer, limit), truncated |-> Len(buffer) > limit]

\* By the path as written.
Suffix == Extension[Resolve(Named)]

Readable(limit) ==
  /\ IsFile(Target) /\ Suffix # "pdf"
  /\ ~Binary(Prefix(fs[Target].text, limit + 1))

ReadFile ==
  /\ Executing("read_file")
  /\ LET limit == Arg("max_bytes", ReadLimit)
     IN IF Readable(limit)
        THEN Answered(ReadText(fs[Target].text, limit)) /\ Still
        ELSE Fail

\* ingest_structured_data: the rows below the header, counted to the end.
IngestRows(t, limit) ==
  LET rows == Tail(t)
  IN [ok |-> TRUE, text |-> Prefix(rows, limit), truncated |-> Len(rows) > limit]

Ingest ==
  /\ Executing("ingest_structured_data")
  /\ IF IsFile(Target) /\ Suffix = "table"
     THEN /\ Answered(IF fs[Target].text = <<>> THEN Done
                      ELSE IngestRows(fs[Target].text,
                                      Most(1, Arg("max_rows", RowLimit))))
          /\ Still
     ELSE Fail

\* normalize_requested_page_range: one bound alone means that page; {} when
\* none is asked for, an empty range <<1, 0>> when the request is refused.
PageRange ==
  LET given == {said[f] : f \in {"page_start", "page_end"} \cap DOMAIN said}
      lo == Arg("page_start", Arg("page_end", 0))
      hi == Arg("page_end", lo)
  IN IF given = {} THEN {}
     ELSE IF 0 \in given \/ hi < lo THEN {<<1, 0>>} ELSE {<<lo, hi>>}

\* The pages of a PDF that are extracted, the range cut at the last page.
Pages(t) ==
  IF PageRange = {} THEN t
  ELSE LET r == CHOOSE r \in PageRange : TRUE
       IN SubSeq(t, r[1], Least(r[2], Len(t)))

\* extract_document_text: a text file is read as by read_file, its mark of
\* truncation dropped; then the limit on characters applies.
ExtractText(t, limit) ==
  [ok |-> TRUE, text |-> Prefix(t, limit), truncated |-> Len(t) > limit]

Extract ==
  /\ Executing("extract_document_text")
  /\ LET text == fs[Target].text
         limit == Arg("max_chars", ReadLimit)
     IN CASE IsFile(Target) /\ Suffix = "pdf"
               /\ (PageRange = {} \/ Pages(text) # <<>>) ->
               Answered(ExtractText(Pages(text), limit)) /\ Still
          [] Suffix = "text" /\ PageRange = {}
               /\ Readable(ReadLimit) ->
               /\ Answered(ExtractText(ReadText(text, ReadLimit).text, limit))
               /\ Still
          [] OTHER -> Fail

\* inspect_path, record_note and an answer in words change no file.
Inspect ==
  /\ pc = "execute" /\ Permitted
  /\ Op \in {"inspect_path", "record_note", "respond"}
  /\ Answered(Done) /\ Still
-----------------------------------------------------------------------------
(* Traversals.                                                             *)

\* What visiting p adds: an entry, a name that matches (names are atoms here, so
\* a pattern matches a component of the path), or the lines of a text
\* that is neither large nor binary.
Hits(p) ==
  CASE Op = "list_directory" -> {<<p, 0>>}
    [] Op = "find_files" ->
         IF Arg("pattern", "*") \in ToSet(p) THEN {<<p, 0>>} ELSE {}
    [] OTHER ->
         IF IsFile(p) /\ Len(fs[p].text) <= ScanLimit /\ ~Binary(fs[p].text)
         THEN {<<p, i>> : i \in {i \in DOMAIN fs[p].text : fs[p].text[i] = "x"}}
         ELSE {}

Descends(p) == IsDir(p) /\ (Op = "list_directory" => Arg("recursive", FALSE))

\* Variant: a file that is skipped ends the search.
EntriesStopping(p) ==
  IF Op = "search_text" /\ IsFile(p) /\ Hits(p) = {} THEN {}
  ELSE (todo \ {p}) \cup (IF Descends(p) THEN Children(p) ELSE {})

\* What is left to visit.  The code goes depth first, in the order the
\* directory gives, which is any order.
Entries(p) == (todo \ {p}) \cup (IF Descends(p) THEN Children(p) ELSE {})

StartWalk ==
  /\ pc = "execute" /\ Permitted /\ Op \in Walks
  /\ IF IsDir(Target)
     THEN /\ pc' = "walk"
          /\ todo' = Children(Target) /\ found' = {}
          /\ Still
          /\ UNCHANGED <<said, capture, existed, result, delta, history>>
     ELSE Fail

\* collect_directory_entries, collect_matching_files, collect_text_matches: an
\* entry that is gone when its metadata is asked for fails the traversal.
Visit ==
  /\ pc = "walk" /\ Cardinality(found) < Cap
  /\ \E p \in todo :
       IF Exists(p)
       THEN \E h \in SUBSET Hits(p) :
              /\ Cardinality(h) = Least(Cardinality(Hits(p)), Cap - Cardinality(found))
              /\ found' = found \cup h
              /\ todo' = Entries(p)
              /\ Still
              /\ UNCHANGED <<pc, said, capture, existed, result, delta, history>>
       ELSE Fail

EndWalk ==
  /\ pc = "walk"
  /\ todo = {} \/ Cardinality(found) >= Cap
  /\ Answered(Done) /\ Still
-----------------------------------------------------------------------------
(* Writing.                                                                *)

\* write_file and append_file look for the file first.
CheckTarget ==
  /\ pc = "execute" /\ Permitted /\ Op \in Writes
  /\ existed' = Exists(Target)
  /\ pc' = "parents"
  /\ Still
  /\ UNCHANGED <<said, capture, todo, found, result, delta, history>>

\* Variant: create_dir instead of create_dir_all.
MissingParentOnly(p) == {q \in Above(p) : ~Exists(q) /\ Front(p) = q}

MissingParents(p) == {q \in Above(p) : ~Exists(q)}

\* create_dir_all of the parent, then the refusal to overwrite.
MakeParents ==
  /\ pc = "parents"
  /\ ~\E q \in Above(Target) : IsFile(q)
  /\ LET new == MissingParents(Target)
         g   == [q \in Place |-> IF q \in new THEN Dir ELSE fs[q]]
     IN IF Op = "write_file" /\ existed /\ ~Overwrite
        THEN fs' = g /\ Over
        ELSE Become(g, new) /\ Goto("open") /\ UNCHANGED last

ParentsFail ==
  /\ pc = "parents"
  /\ \E q \in Above(Target) : IsFile(q)
  /\ Fail

\* Variant: an append opens the file like a write.
NewTextTruncating(t) == Arg("content", <<>>)

\* What the file holds afterwards: O_TRUNC or O_APPEND.
NewText(t) ==
  IF Op = "append_file" THEN t \o Arg("content", <<>>) ELSE Arg("content", <<>>)

\* Appending nothing to a file that is there does not modify it.
NoWrite == Op = "append_file" /\ Arg("content", <<>>) = <<>> /\ IsFile(Target)

WriteContent ==
  /\ pc = "open" /\ ~IsDir(Target)
  /\ LET new == NewText(fs[Target].text)
     IN /\ Len(new) <= MaxLen
        /\ Become([fs EXCEPT ![Target] = File(new)],
                  IF NoWrite THEN {} ELSE {Target})
  /\ Answered(Done) /\ UNCHANGED last

\* The file is a directory, or the disk is full after the file was opened.
WriteFails ==
  /\ pc = "open"
  /\ fs' = IF IsDir(Target) THEN fs
           ELSE [fs EXCEPT ![Target] =
                  File(IF Op = "append_file" THEN fs[Target].text ELSE <<>>)]
  /\ Over
-----------------------------------------------------------------------------
(* What the reasoner is shown.                                             *)

\* compact_action_result_for_context: of a text its beginning, marked when the
\* shell has cut it and with an ellipsis when this does; rows in full; of a
\* listing or search how much was found and the first of it.
Shown(r, hits) ==
  LET text   == IF Op = "ingest_structured_data" THEN r.text ELSE Prefix(r.text, TextShown)
      most   == IF Op = "search_text" THEN MatchesShown ELSE EntriesShown
  IN  [text |-> text, marked |-> r.truncated \/ text # r.text,
       count |-> Cardinality(hits), entries |-> Least(most, Cardinality(hits))]
-----------------------------------------------------------------------------
(* Commands.                                                               *)

\* A command does what it likes to the files, and the shell remembers its
\* output; one that fails to start, or is stopped, ends the step.
RunCommand ==
  /\ Executing("run_command")
  /\ \/ Still
     \/ \E p \in Foreign, t \in ForeignText :
          /\ IsDir(Front(p)) /\ ~IsDir(p)
          /\ Become([fs EXCEPT ![p] = File(t)], {p})
     \/ \E p \in Foreign :
          /\ IsFile(p)
          /\ Become([fs EXCEPT ![p] = None], {p})
  /\ last' \in {0, 1}
  /\ Answered(Done)

CommandFails ==
  /\ Executing("run_command")
  /\ Fail
-----------------------------------------------------------------------------
(* Verification.                                                           *)

CapturePost ==
  /\ pc = "recapture"
  /\ post' = {Stat(At(n), At(n) \in touched) : n \in Tracked}
  /\ final' = IF Tracked = {} THEN None ELSE fs[Target]
  /\ pc' = IF \E n \in Tracked : WithContent /\ IsFile(At(n))
           THEN "rehash" ELSE "compare"
  /\ found' = {} /\ todo' = {}
  /\ Still
  /\ UNCHANGED <<said, pre, lastPre, existed, result, delta, base>>

HashPost ==
  /\ pc = "rehash"
  /\ IF IsFile(Target)
     THEN /\ post' = {[s EXCEPT !.hash = {fs[Target].text}] : s \in post}
          /\ pc' = "compare"
          /\ Still
          /\ UNCHANGED <<said, pre, lastPre, existed, todo, found, result,
                         delta, history>>
     ELSE Fail

Compare ==
  /\ pc = "compare"
  /\ delta' = [kind |-> DeltaKind, changed |-> ChangedPaths]
  /\ pc' = "compared"
  /\ Still
  /\ UNCHANGED <<said, capture, existed, todo, found, result, history>>
-----------------------------------------------------------------------------
(* Everybody else.                                                         *)

\* A process an earlier command left behind, or the operator's editor,
\* replaces or removes a file.  (Before the first capture it would only change
\* what the step starts with.)
Meddle ==
  /\ pc \notin {"idle", "capture", "compared"}
  /\ \E p \in Foreign, node \in {None} \cup {File(t) : t \in ForeignText} :
       /\ fs[p] # node /\ ~IsDir(p) /\ IsDir(Front(p))
       /\ LET g == [fs EXCEPT ![p] = node]
          IN /\ fs' = g
             /\ touched' = touched \cup Modified(g, {p})
             /\ meddled' = TRUE
  /\ UNCHANGED <<authority, last, pc, said, capture, existed, todo, found,
                 result, delta, history>>

\* The loop judges the step (KernelLoop); the next answer starts afresh.
Return ==
  /\ pc = "compared"
  /\ Fail

Step ==
  \/ \E task \in Task, r \in Reply : Reason(task, r) \/ ReasonFails(task, r)
  \/ CapturePre \/ HashPre \/ Refuse
  \/ ReadFile \/ Ingest \/ Extract \/ Inspect
  \/ StartWalk \/ Visit \/ EndWalk
  \/ CheckTarget \/ MakeParents \/ ParentsFail \/ WriteContent \/ WriteFails
  \/ RunCommand \/ CommandFails
  \/ CapturePost \/ HashPost \/ Compare \/ Return

Next == Step \/ Meddle

Spec == Init /\ [][Next]_vars
-----------------------------------------------------------------------------
(* Correctness.                                                            *)

Places == {"idle", "capture", "hash", "execute", "walk", "parents", "open",
           "recapture", "rehash", "compare", "compared"}

\* Every variable holds a value of its type, and every file is in a directory.
TypeOK ==
  /\ FileTree(fs)
  /\ pc \in Places
  /\ \A s \in pre \cup post : s.exists \in BOOLEAN /\ s.modified \in BOOLEAN
  /\ Cardinality(pre) <= 1 /\ Cardinality(post) <= 1
  /\ last \in 0..1 /\ lastPre \in 0..1 /\ existed \in BOOLEAN
  /\ todo \cup touched \subseteq Place /\ meddled \in BOOLEAN
  /\ found \subseteq Place \X (0..MaxLen)
  /\ delta.kind \in {"none", "unchanged", "as_expected", "unexpected"}

\* Nothing that happens to a tracked file between the two captures is missed,
\* whoever did it and however it falls between the metadata and the content of
\* a capture: a step is judged "unchanged" only if the file is as it was.
ChangesSeen ==
  pc = "compared" /\ base # final => delta.changed = Tracked

\* Left alone, the verification tells the truth about file operations: a write
\* that returned is found to have changed the file it named, except that nothing
\* was appended, and a step that reads or answers is found to change nothing.
WritesVerified ==
  pc = "compared" /\ ~meddled /\ Op # "run_command" =>
    IF Op \in Writes /\ ~(Op = "append_file" /\ Arg("content", <<>>) = <<>>)
    THEN delta = [kind |-> "as_expected", changed |-> {Named}]
    ELSE Op \notin Writes => delta = [kind |-> "unchanged", changed |-> {}]

\* A listing or search that is shown whole, as many entries as it counts, and
\* counts fewer than its cap, is complete: whatever was there all the time is in
\* it, although files came and went meanwhile.
TraversalComplete ==
  pc = "recapture" /\ Op \in Walks =>
    LET shown == Shown(result, found)
    IN  /\ shown.count <= Cap
        /\ shown.entries = shown.count /\ shown.count < Cap =>
             \A p \in Place \ touched :
               /\ Exists(p) /\ Target \in Above(p)
               /\ Op = "list_directory" /\ ~Arg("recursive", FALSE) => Front(p) = Target
               => Hits(p) \subseteq found

\* What a reading action is asked for, in full.
Asked ==
  CASE Op = "ingest_structured_data" ->
         IF fs[Target].text = <<>> THEN <<>> ELSE Tail(fs[Target].text)
    [] Op = "extract_document_text" -> Pages(fs[Target].text)
    [] OTHER -> fs[Target].text

\* A text the reasoner is shown without a mark that it was cut is all there was
\* to read: at the limits of the reading and of the showing, below and above
\* them, for bytes, rows, pages and ranges of pages.  The extraction of a text
\* file longer than the read limit is left out: there the mark of the read is
\* dropped.
ReadHonest ==
  [][ (pc = "execute" /\ pc' = "recapture"
       /\ Op \in {"read_file", "ingest_structured_data", "extract_document_text"})
      => LET shown == Shown(result', {})
         IN  /\ IsPrefix(shown.text, Asked)
             /\ \/ shown.marked
                \/ shown.text = Asked
                \/ /\ Op = "extract_document_text" /\ Suffix = "text"
                   /\ Len(fs[Target].text) > ReadLimit ]_vars

\* The agent's own file operations take nothing away from a file that was there
\* when the write was checked unless the model's answer itself says overwrite;
\* an append never loses what others wrote before it.
OverwriteMeant ==
  [][ (pc' # pc /\ Op \in Writes) =>
        \A p \in Place :
          IsFile(p) /\ ~IsPrefix(fs[p].text, fs'[p].text) =>
            /\ Op = "write_file"
            /\ ~existed \/ (Given("overwrite") /\ said.overwrite) ]_vars

InScope(path) ==
  authority.roots = {} \/ \E r \in authority.roots : Within(Resolve(r), path)

\* The step works on a path the system does not take as it stands, a path that
\* is written below a root; p is what it leads to or below that.
Diverted(p) ==
  LET path == Resolve(Named)
  IN  path \in DOMAIN Leads /\ InScope(path) /\ Within(Leads[path], p)

\* An agent confined to some roots changes and finds nothing outside them, by
\* relative, absolute, home and folder names alike.  The exception is a path with
\* `..` in it or through a symbolic link: it is judged as it is written, so
\* the step reaches what it leads to, and nothing beside that.  Commands are
\* not confined.
ScopeKept ==
  [][ Op # "run_command" =>
        /\ pc' # pc =>
             \A p \in Place :
               fs'[p] # fs[p] /\ fs'[p] # Dir => InScope(p) \/ Diverted(p)
        /\ \A h \in found' : InScope(h[1]) \/ Diverted(h[1]) ]_vars
=============================================================================
