------------------------------- MODULE CsvImport -------------------------------
(***************************************************************************)
(* Bulk import (apps/composer/views.py, csv_upload, csv_preview and         *)
(* csv_confirm_import): the file and the mapping of its columns wait in the *)
(* session of the browser between three requests, and the last one creates  *)
(* the posts row by row, each in its own transactions.                      *)
(***************************************************************************)
EXTENDS Integers, FiniteSets

CONSTANTS Files,          \* CSV files; each has rows 1 .. CsvRows
          CsvRows,
          NoCaption,      \* <<file, row>>: rows without a caption, or with a date nobody can read
          Dated,          \* <<file, row>>: rows with a date
          Importers,      \* requests of the browser's tabs
          MaxCsvCalls,    \* bound on the requests
          MaxCsvFaults    \* bound on deaths and errors

NoFile == "none"

ASSUME CsvAssumption ==
    /\ CsvRows \in Nat /\ MaxCsvCalls \in Nat /\ MaxCsvFaults \in Nat
    /\ NoFile \notin Files /\ IsFiniteSet(Importers)

VARIABLES
    csv,          \* the session: csv_import, csv_mapping (the file whose columns it maps)
    importer,     \* request -> what it does
    csvCalls,
    csvFaults,
    imported,     \* <<file, row>> -> statuses of the posts made of it, by number
    csvPast       \* history, see CsvHistory

csvVars == <<csv, importer, csvCalls, csvFaults, imported, csvPast>>

NoImport == [step |-> "idle"]
Cells == Files \X (1 .. CsvRows)
EmptySession == [file |-> NoFile, mapping |-> NoFile]

Import(u, request) == importer' = [importer EXCEPT ![u] = request]
CsvCall(u) == importer[u] = NoImport /\ csvCalls < MaxCsvCalls /\ csvCalls' = csvCalls + 1
CsvFault == csvFaults < MaxCsvFaults /\ csvFaults' = csvFaults + 1

\* What csv_progress.html tells the author.
ImportAnswer(u) ==
    [file |-> importer[u].session.file, created |-> importer[u].created,
     errors |-> importer[u].errors]

\* A session is read at the start and written whole at the end.
WriteSession(u, written) ==
    /\ csv' = written
    /\ csvPast' = [csvPast EXCEPT !.crossed = @ \/ csv # importer[u].session,
                     !.answers = IF importer[u].step = "import" THEN @ \cup {ImportAnswer(u)} ELSE @]

-------------------------------------------------------------------------------

BeginUpload(u, f) ==
    /\ CsvCall(u) /\ f \notin csvPast.uploaded
    /\ Import(u, [step |-> "upload", session |-> csv, file |-> f])
    /\ csvPast' = [csvPast EXCEPT !.uploaded = @ \cup {f}]
    /\ UNCHANGED <<csv, csvFaults, imported>>

\* The mapping of an earlier file stays.
StoreUpload(u) ==
    /\ importer[u].step = "upload" /\ Import(u, NoImport)
    /\ WriteSession(u, [importer[u].session EXCEPT !.file = importer[u].file])
    /\ UNCHANGED <<csvCalls, csvFaults, imported>>

BeginMapping(u) ==
    /\ CsvCall(u) /\ csv.file # NoFile
    /\ Import(u, [step |-> "preview", session |-> csv, file |-> csv.file])
    /\ UNCHANGED <<csv, csvFaults, imported, csvPast>>

\* csv_preview: its verdicts on the rows are shown and not kept.
StoreMapping(u) ==
    /\ importer[u].step = "preview" /\ Import(u, NoImport)
    /\ WriteSession(u, [importer[u].session EXCEPT !.mapping = importer[u].file])
    /\ UNCHANGED <<csvCalls, csvFaults, imported>>

Confirm(u) ==
    /\ CsvCall(u) /\ csv.file # NoFile /\ csv.mapping # NoFile
    /\ Import(u, [step |-> "import", session |-> csv, row |-> 1, created |-> 0, errors |-> 0])
    /\ csvPast' = [csvPast EXCEPT !.confirms[csv.file] = @ + 1,
                     !.foreign = IF csv.mapping # csv.file THEN @ \cup {csv.file} ELSE @]
    /\ UNCHANGED <<csv, csvFaults, imported>>

\* Mutant: a row without a caption is created all the same.
WithText(cell) == TRUE

HasText(cell) == cell \notin NoCaption

\* With a date a row becomes a scheduled post, without one a draft.
WithPost(posts, cell) ==
    IF cell \in Dated THEN [posts EXCEPT !.scheduled = @ + 1] ELSE [posts EXCEPT !.draft = @ + 1]

\* How the handling of a row ends: done; in an exception at or before post.save, which
\* leaves nothing; or in one after it, which leaves the post without all of its channels.
RowOutcomes == {"done", "unsaved", "half"}

\* One row; "except Exception: error_count += 1", and on with the next one.
ImportRow(u, outcome) ==
    LET r == importer[u]
        cell == <<r.session.file, r.row>>
        counted == HasText(cell) /\ outcome = "done"
    IN  /\ r.step = "import" /\ r.row <= CsvRows
        /\ IF outcome = "done" THEN UNCHANGED csvFaults ELSE CsvFault /\ HasText(cell)
        /\ imported' = IF HasText(cell) /\ outcome # "unsaved"
                       THEN [imported EXCEPT ![cell] = WithPost(@, cell)] ELSE imported
        /\ Import(u, IF counted THEN [r EXCEPT !.row = @ + 1, !.created = @ + 1]
                     ELSE [r EXCEPT !.row = @ + 1, !.errors = @ + 1])
        /\ UNCHANGED <<csv, csvCalls, csvPast>>

\* Mutant: what was imported stays in the session.
KeptSession(session) == session

\* "Clean up session data"
CleanSession(session) == EmptySession

FinishImport(u) ==
    /\ importer[u].step = "import" /\ importer[u].row > CsvRows
    /\ WriteSession(u, CleanSession(importer[u].session))
    /\ Import(u, NoImport)
    /\ UNCHANGED <<csvCalls, csvFaults, imported>>

\* The worker is killed, by its timeout or a deployment.
ImportDies(u) ==
    /\ importer[u].step = "import" /\ CsvFault /\ Import(u, NoImport)
    /\ UNCHANGED <<csv, csvCalls, imported, csvPast>>

\* crossed: two requests wrote one session; answers: those of the imports that ended;
\* foreign: imported with the mapping of another file; confirms: imports begun.
CsvHistory == [uploaded |-> {}, crossed |-> FALSE, answers |-> {}, foreign |-> {},
               confirms |-> [f \in Files |-> 0]]

CsvInit ==
    /\ csv = EmptySession /\ importer = [u \in Importers |-> NoImport]
    /\ csvCalls = 0 /\ csvFaults = 0
    /\ imported = [c \in Cells |-> [scheduled |-> 0, draft |-> 0]]
    /\ csvPast = CsvHistory

CsvNext ==
    \E u \in Importers :
       \/ \E f \in Files : BeginUpload(u, f)
       \/ StoreUpload(u) \/ BeginMapping(u) \/ StoreMapping(u) \/ Confirm(u)
       \/ \E outcome \in RowOutcomes : ImportRow(u, outcome)
       \/ FinishImport(u) \/ ImportDies(u)

CsvTypeOK ==
    /\ csv.file \in Files \cup {NoFile} /\ csv.mapping \in Files \cup {NoFile}
    /\ csvFaults \in 0 .. MaxCsvFaults

Posts(cell) == imported[cell].scheduled + imported[cell].draft

\* However imports die, overlap and are asked for again, a row makes at most one post
\* each time its file is confirmed, none without a caption, and a scheduled one only
\* with a date.
RowsBounded ==
    \A c \in Cells :
        /\ Posts(c) <= csvPast.confirms[c[1]]
        /\ c \in NoCaption => Posts(c) = 0
        /\ c \notin Dated => imported[c].scheduled = 0

\* Rows of a file that became a post.
Made(f, n) == {m \in 1 .. n : Posts(<<f, m>>) >= 1}

\* Whatever failed in between, an import that answers has counted each row once and
\* claims no more posts than the file has (so one with no more errors than rows without
\* a caption has imported them all), and its file is out of the session, so that a second
\* confirmation finds nothing, unless another request wrote the session at the same time.
ImportsEnd ==
    \A a \in csvPast.answers :
        /\ a.created + a.errors = CsvRows
        /\ a.created <= Cardinality(Made(a.file, CsvRows))
        /\ ~csvPast.crossed => csv.file # a.file

\* Columns are those the author confirmed for this file, unless a second file was
\* uploaded and imported without a preview of its own, or requests crossed.
MappedAsShown ==
    \A f \in csvPast.foreign : Cardinality(csvPast.uploaded) > 1

ImportIsSound == RowsBounded /\ ImportsEnd /\ MappedAsShown
===============================================================================
