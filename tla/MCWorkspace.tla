----------------------------- MODULE MCWorkspace -----------------------------
(***************************************************************************)
(* An instance of Workspace for TLC: a home directory with a documents     *)
(* folder that holds a PDF, and a working directory with a note, a table   *)
(* in a subdirectory and the default output file.  A link in the working   *)
(* directory leads to the documents, and a path goes down and up again.    *)
(***************************************************************************)
EXTENDS Workspace

MCHome == <<"home">>
MCCwd  == <<"home", "work">>
docs   == <<"home", "docs">>
sub    == <<"home", "work", "sub">>
note   == <<"home", "work", "note">>
table  == <<"home", "work", "sub", "table">>
paper  == <<"home", "docs", "paper">>
output == <<"home", "work", "retina-output.txt">>
inside == <<"home", "work", "note", "inside">>
new    == <<"home", "docs", "new">>
deep   == <<"home", "docs", "new", "deep">>
page   == <<"home", "docs", "new", "deep", "page">>
back   == <<"home", "work", "sub", "..", "note">>
link   == <<"home", "work", "link">>

MCPlace == {MCHome, MCCwd, docs, sub, note, table, paper, output, inside,
            new, deep, page}
MCFolder == [documents |-> docs]
MCLeads == back :> note @@ link :> docs
MCExtension ==
  [p \in MCPlace \cup {back, link} |->
     CASE p = paper -> "pdf" [] p = table -> "table"
       [] p \in {note, output, inside, new, deep, page, back} -> "text"
       [] OTHER -> "other"]

MCTree ==
  {[p \in MCPlace |->
      CASE p \in {MCHome, MCCwd, docs} -> Dir
        [] p = sub -> Dir
        [] p = table -> File(t)
        [] p = note -> n
        [] p = paper -> File(<<"x", "y">>)
        [] OTHER -> None] :
     t \in {<<>>, <<"x", "y">>}, n \in {None, File(<<"x">>)}}

MCForeign == {note}
MCForeignText == {<<"x">>, <<"x", "nul">>}

Everything == {"commands", "reads", "writes", "search", "notes", "text"}
MCAuthorities == {[permits |-> Everything, roots |-> {}],
                  [permits |-> Everything \ {"notes"}, roots |-> {<<>>}]}

Reads ==
  {[type |-> "read_file", path |-> <<"note">>],
   [type |-> "read_file", path |-> <<"sub", "table">>, max_bytes |-> 2],
   [type |-> "read_file", path |-> <<"~", "work", "note">>, max_bytes |-> 0],
   [type |-> "ingest_structured_data", path |-> <<"sub", "table">>],
   [type |-> "ingest_structured_data", path |-> <<"sub", "table">>, max_rows |-> 2],
   [type |-> "extract_document_text", path |-> <<"documents", "paper">>,
    page_start |-> 2, page_end |-> 3],
   [type |-> "extract_document_text", path |-> <<"~", "documents", "paper">>,
    page_end |-> 2, max_chars |-> 0],
   [type |-> "extract_document_text", path |-> paper, page_start |-> 0],
   [type |-> "extract_document_text", path |-> paper, max_chars |-> 2],
   [type |-> "extract_document_text", path |-> <<"note">>, max_chars |-> 2],
   [type |-> "inspect_path", path |-> <<"note">>],
   [type |-> "inspect_path", include_content |-> FALSE]}

Searches ==
  {[type |-> "list_directory"],
   [type |-> "list_directory", path |-> <<"link">>],
   [type |-> "list_directory", path |-> <<"~">>, recursive |-> TRUE],
   [type |-> "list_directory", max_entries |-> 0],
   [type |-> "find_files", root |-> <<>>, pattern |-> "sub"],
   [type |-> "find_files"],
   [type |-> "search_text", root |-> <<>>],
   [type |-> "search_text", root |-> <<"sub">>, max_results |-> 1]}

Changes ==
  {[type |-> "write_file", path |-> <<"note">>, content |-> <<"y">>],
   [type |-> "write_file", path |-> <<"note">>, overwrite |-> TRUE],
   [type |-> "write_file", content |-> <<"y">>],
   [type |-> "write_file", path |-> <<"documents", "new", "deep", "page">>],
   [type |-> "write_file", path |-> <<"note", "inside">>],
   [type |-> "append_file", path |-> <<"note">>, content |-> <<"y">>],
   [type |-> "append_file", path |-> <<"sub", "..", "note">>, content |-> <<"y">>],
   [type |-> "append_file", path |-> <<"sub", "table">>],
   [type |-> "run_command", path |-> <<"note">>],
   [type |-> "run_command", expect_change |-> TRUE],
   [type |-> "run_command", path |-> paper, expect_change |-> FALSE]}

Words == {[type |-> "record_note"], [type |-> "dance"]}

MCReply ==
  {[status |-> "ok", shape |-> "fenced", answer |-> a] :
     a \in Reads \cup Searches \cup Changes \cup Words}
  \cup {[status |-> "ok", shape |-> "prose", answer |-> [type |-> "none"]],
        [status |-> "error", shape |-> "json", answer |-> [type |-> "none"]]}
=============================================================================
