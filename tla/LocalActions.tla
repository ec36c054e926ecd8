----------------------------- MODULE LocalActions -----------------------------
(***************************************************************************)
(* What the CLI does with a code block: src/src/cli/local-actions.  A      *)
(* line of a block or of a file is one character; the files are a function *)
(* from the names of the existing files to their lines, without the empty  *)
(* lines that an empty replacement leaves.                                 *)
(***************************************************************************)
EXTENDS StreamText, Integers

CONSTANTS Headers,      \* from the lines "=== FILE: name" to the names
          Unreadable,   \* the files that are binary or larger than maxFileSize
          ReadOnly,     \* the files that cannot be written
          ReadsEnabled  \* localActions.fileReads.enabled

Result(success, files, output) == [success |-> success, files |-> files, output |-> output]

-----------------------------------------------------------------------------
(* edit-applier.ts *)

\* parseEditBlock(): search and replace keep their lines until the next SEARCH marker
\* and the next divider.
EditLine(p, line) ==
  IF line \in DOMAIN Headers THEN [p EXCEPT !.file = <<Headers[line]>>]
  ELSE CASE line = "SEARCH" -> [p EXCEPT !.state = "search", !.search = <<>>]
         [] line = "DIVIDER" /\ p.state = "search" ->
              [p EXCEPT !.state = "replace", !.replace = <<>>]
         [] line = "REPLACE" ->
              [p EXCEPT !.state = "idle",
                        !.operations = IF p.file = <<>> THEN @
                                       ELSE Append(@, [filename |-> p.file[1],
                                                       search |-> p.search,
                                                       replace |-> p.replace])]
         [] OTHER -> CASE p.state = "search"  -> [p EXCEPT !.search = Append(@, line)]
                       [] p.state = "replace" -> [p EXCEPT !.replace = Append(@, line)]
                       [] OTHER               -> p

parseEditBlock(content) ==
  LET after[n \in 0 .. Len(content)] ==
        IF n = 0 THEN [file |-> <<>>, state |-> "idle", search |-> <<>>, replace |-> <<>>,
                       operations |-> <<>>]
        ELSE EditLine(after[n - 1], content[n])
  IN  after[Len(content)].operations

\* Faulty variant: a text that occurs more than once is taken for unique.
occurrences_Any(source, search) == IF Places(source, search) = {} THEN 0 ELSE 1

\* A place of the searched text counts if it does not overlap the one counted before.
Found(r, n, search) ==
  IF n < r.next THEN r ELSE [found |-> r.found + 1, next |-> n + Len(search)]

\* source.split(search).length - 1, where a file has one character and one newline per line.
occurrences(source, search) ==
  LET after[n \in 0 .. Len(source)] ==
        IF n = 0 THEN [found |-> 0, next |-> 1]
        ELSE IF n \notin Places(source, search) THEN after[n - 1]
        ELSE Found(after[n - 1], n, search)
  IN  IF search = <<>> THEN IF source = <<>> THEN -1 ELSE 2 * Len(source) - 2
      ELSE after[Len(source)].found

\* What String.replace() does not insert as it is written.
Patterns == {"$$", "$&", "$`", "$'"}
Expanded(line, source, at, search) ==
  CASE line = "$$" -> <<"$">>
    [] line = "$&" -> search
    [] line = "$`" -> Before(source, at)
    [] line = "$'" -> From(source, at + Len(search))
    [] OTHER       -> <<line>>

\* source.replace(search, replace): at the first place, with the patterns expanded.
replaceFirst(source, search, replace) ==
  LET at == Least(Places(source, search))
  IN  Before(source, at)
        \o FlattenSeq([i \in DOMAIN replace |-> Expanded(replace[i], source, at, search)])
        \o From(source, at + Len(search))

\* One operation; an operation that fails leaves those before it done.
EditOperation(e, op) ==
  LET known == op.filename \in DOMAIN e.files
      source == IF known THEN e.files[op.filename] ELSE <<>>
      found == occurrences(source, op.search)
      status == IF ~known THEN "error"
                ELSE IF found = 0 THEN "not found"
                ELSE IF found > 1 THEN "ambiguous"
                ELSE IF op.filename \in ReadOnly THEN "error" ELSE "edited"
  IN  [e EXCEPT !.output = Append(@, status),
                !.files = IF status = "edited"
                          THEN [@ EXCEPT ![op.filename] = replaceFirst(source, op.search, op.replace)]
                          ELSE @]

applyEditBlock(content, files) ==
  LET operations == parseEditBlock(content)
      after[n \in 0 .. Len(operations)] ==
        IF n = 0 THEN [files |-> files, output |-> <<>>]
        ELSE EditOperation(after[n - 1], operations[n])
      edited == after[Len(operations)]
      names == {operations[i].filename : i \in DOMAIN operations}
  IN  IF operations = <<>> THEN Result(FALSE, files, <<"no operations">>)
      ELSE IF Cardinality(names) > 1 THEN Result(FALSE, files, <<"multiple files">>)
      ELSE Result(Range(edited.output) = {"edited"}, edited.files, edited.output)

-----------------------------------------------------------------------------
(* file-creator.ts, file-reader.ts, code-executor.ts *)

applyCreateBlock(content, files) ==
  IF content = <<>> \/ content[1] \notin DOMAIN Headers
  THEN Result(FALSE, files, <<"missing header">>)
  ELSE LET name == Headers[content[1]]
       IN  IF name \in ReadOnly THEN Result(FALSE, files, <<"error">>)
           ELSE Result(TRUE, [f \in DOMAIN files \cup {name} |->
                                IF f = name THEN Tail(content) ELSE files[f]],
                       <<IF name \in DOMAIN files THEN "overwritten" ELSE "created">>)

\* The lines of a read block are file names.
applyReadBlock(content, files) ==
  LET Readable(name) == name \in DOMAIN files \ Unreadable
  IN  IF ~ReadsEnabled THEN Result(FALSE, files, <<"disabled">>)
      ELSE IF content = <<>> THEN Result(FALSE, files, <<"no paths">>)
      ELSE Result(\A i \in DOMAIN content : Readable(content[i]), files, content)

\* A command succeeds or fails; what it does to files is its own affair.
executeBlock(files) == {Result(TRUE, files, <<"exit 0">>), Result(FALSE, files, <<"exit 1">>)}

-----------------------------------------------------------------------------
(* block-handlers.ts: the first handler that matches. *)

requiresConfirmation(block) == block.language # <<"read">>

Applied(block, files) ==
  CASE block.language = <<"read">>   -> {applyReadBlock(block.content, files)}
    [] block.language = <<"edit">>   -> {applyEditBlock(block.content, files)}
    [] block.language = <<"create">> -> {applyCreateBlock(block.content, files)}
    [] OTHER                         -> executeBlock(files)
===============================================================================
