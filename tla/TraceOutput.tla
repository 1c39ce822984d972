---------------------------- MODULE TraceOutput ----------------------------
(***************************************************************************)
(* The trace files on disk, while games write them and smedley_trace       *)
(* exports one of them (plugins/telemetry/src/telemetry_core.cpp, Writer;  *)
(* apps/trace/trace.cpp, ExportTrace).                                     *)
(*                                                                         *)
(* A path names a file and two paths may name the same one.  A file is the *)
(* sequence of its records, [run, seq].  A game holds its trace open and   *)
(* lets others read it only; the exporter reads through a handle that lets *)
(* others do anything, first takes the size there is, and writes a         *)
(* temporary file that it moves to its destination at the end.  The        *)
(* filter of an export selects every record here.                          *)
(***************************************************************************)
EXTENDS Integers, Sequences, FiniteSets, SequencesExt

CONSTANTS
    Paths, Files,  \* the names used, and the files there may be
    Runs,          \* games with a trace
    Old,           \* the run of a trace that was there before
    MaxRecords,    \* records of a run
    MaxExports     \* exports

ASSUME OldAssumption == Old \notin Runs

\* There is always a file that is not in use: InUse below has fewer elements.
ASSUME FilesAssumption ==
    /\ IsFiniteSet(Paths) /\ IsFiniteSet(Runs) /\ IsFiniteSet(Files)
    /\ 1 \in Files /\ 0 \notin Files
    /\ Cardinality(Files) > Cardinality(Paths) + Cardinality(Runs) + 2

VARIABLES
    dir,       \* the file a path names, 0 for none
    rows,      \* the records of a file
    writer,    \* the file a run's game holds open, 0 for none
    exporter,  \* the export
    exports

diskVars == <<dir, rows, writer, exporter, exports>>

NoExport == [at |-> "idle", input |-> 0, output |-> 0, overwrite |-> FALSE,
             source |-> 0, snapshot |-> 0, read |-> 0, run |-> Old, temporary |-> 0]

OldRows == <<[run |-> Old, seq |-> 1]>>
Links(f) == {p \in Paths : dir[p] = f}
InUse == {dir[p] : p \in Paths} \cup {writer[g] : g \in Runs} \cup {exporter.source, exporter.temporary}
NewFile == CHOOSE f \in Files : f \notin InUse

\* No trace, an old one, or an old one with two names.
DiskInit ==
    /\ \E old \in SUBSET Paths : dir = [p \in Paths |-> IF p \in old THEN 1 ELSE 0]
    /\ rows = [f \in Files |-> IF f = 1 THEN OldRows ELSE <<>>]
    /\ writer = [g \in Runs |-> 0] /\ exporter = NoExport /\ exports = 0

\* ---------------------------------------------------------------------------
\* The telemetry writer of a game.

\* ValidateOutputPath, and CREATE_NEW or CREATE_ALWAYS with nobody else writing.
CanStart(path, overwrite) ==
    dir[path] # 0 => overwrite /\ \A g \in Runs : writer[g] # dir[path]

Start(g, path, overwrite) ==
    /\ CanStart(path, overwrite)
    /\ LET f == IF dir[path] = 0 THEN NewFile ELSE dir[path]
       IN  /\ dir' = [dir EXCEPT ![path] = f]
           /\ rows' = [rows EXCEPT ![f] = <<[run |-> g, seq |-> 1]>>]
           /\ writer' = [writer EXCEPT ![g] = f]
    /\ UNCHANGED <<exporter, exports>>

WriteLine(g) ==
    /\ writer[g] # 0 /\ Len(rows[writer[g]]) < MaxRecords
    /\ rows' = [rows EXCEPT ![writer[g]] = Append(@, [run |-> g, seq |-> Len(@) + 1])]
    /\ UNCHANGED <<dir, writer, exporter, exports>>

\* Stop, or the end of the process.
Closed(g) == writer' = [writer EXCEPT ![g] = 0]

\* ---------------------------------------------------------------------------
\* The export.

\* A refused export leaves everything alone; the checks go by path and before
\* anything is opened.
StartOutput ==
    /\ exporter.at = "idle" /\ exports < MaxExports
    /\ \E input, output \in Paths, overwrite \in BOOLEAN :
        /\ dir[input] # 0
        /\ dir[output] # 0 =>
               dir[output] # dir[input] /\ Cardinality(Links(dir[output])) = 1 /\ overwrite
        /\ exporter' = [NoExport EXCEPT !.at = "open", !.input = input, !.output = output,
                          !.overwrite = overwrite, !.temporary = NewFile]
    /\ rows' = [rows EXCEPT ![NewFile] = <<>>] /\ exports' = exports + 1
    /\ UNCHANGED <<dir, writer>>

\* Stream opens the source and takes the size it has.
OpenSource ==
    /\ exporter.at = "open"
    /\ LET f == dir[exporter.input]
       IN  exporter' = [exporter EXCEPT !.at = "read", !.source = f, !.snapshot = Len(rows[f])]
    /\ UNCHANGED <<dir, rows, writer, exports>>

\* One more record is in the buffer: of the same run and next in order, or
\* Stream refuses it.
ReadRecord ==
    /\ exporter.at = "read" /\ exporter.read < exporter.snapshot
    /\ exporter.read < Len(rows[exporter.source])
    /\ LET r == rows[exporter.source][exporter.read + 1]
       IN  /\ exporter.read > 0 => r.run = exporter.run /\ r.seq > exporter.read
           /\ exporter' = [exporter EXCEPT !.read = @ + 1, !.run = r.run]
           /\ rows' = [rows EXCEPT ![exporter.temporary] = Append(@, r)]
    /\ UNCHANGED <<dir, writer, exports>>

\* The end of the snapshot, and a record was found.
EndOfSource ==
    /\ exporter.at = "read" /\ exporter.read = exporter.snapshot
    /\ exporter.read > 0
    /\ exporter' = [exporter EXCEPT !.at = "publish", !.source = 0]
    /\ UNCHANGED <<dir, rows, writer, exports>>

\* Mutant of the next: the destination is replaced whether asked or not.
Publish_AlwaysReplaces ==
    /\ exporter.at = "publish"
    /\ \A g \in Runs : writer[g] # dir[exporter.output] \/ writer[g] = 0
    /\ dir' = [dir EXCEPT ![exporter.output] = exporter.temporary]
    /\ exporter' = NoExport
    /\ UNCHANGED <<rows, writer, exports>>

\* MoveFileEx replaces a name only when told to and nobody has the file open.
Publish ==
    /\ exporter.at = "publish"
    /\ dir[exporter.output] # 0 => exporter.overwrite
    /\ \A g \in Runs : writer[g] # dir[exporter.output] \/ writer[g] = 0
    /\ dir' = [dir EXCEPT ![exporter.output] = exporter.temporary]
    /\ exporter' = NoExport
    /\ UNCHANGED <<rows, writer, exports>>

(***************************************************************************)
(* A source that ends early, was replaced by another run or is malformed   *)
(* where a game overwrote it, no record or no match, a read, write or move *)
(* that fails: the destructor of Output removes the temporary file.        *)
(***************************************************************************)
GiveUp ==
    /\ exporter.at \in {"open", "read", "publish"}
    /\ exporter' = NoExport /\ rows' = [rows EXCEPT ![exporter.temporary] = <<>>]
    /\ UNCHANGED <<dir, writer, exports>>

\* The process is killed: the temporary file stays.
Kill ==
    /\ exporter.at \in {"open", "read", "publish"}
    /\ exporter' = [NoExport EXCEPT !.at = "killed", !.temporary = exporter.temporary]
    /\ UNCHANGED <<dir, rows, writer, exports>>

Export == StartOutput \/ OpenSource \/ ReadRecord \/ EndOfSource \/ Publish \/ GiveUp \/ Kill
-----------------------------------------------------------------------------
(***************************************************************************)
(* ExportIsWhole.  Only a finished export changes what a path names, apart *)
(* from a game that creates its trace.  What it then names is every record *)
(* the reading met, to the end of the file: the first records of a single  *)
(* run, in order (of a new run, if a game overwrote the source between the *)
(* opening and the first record); nothing that was there is replaced       *)
(* unless --overwrite was given, and never the file that was exported, by  *)
(* whatever name, nor one that a game is writing (StartOutput, Stream and  *)
(* Publish, with a game that may start, overwrite or write at any step).   *)
(***************************************************************************)
ExportIsWhole ==
    [][dir' # dir /\ writer' = writer =>
         LET p == exporter.output
             new == rows'[dir'[p]]
         IN  /\ dir' = [dir EXCEPT ![p] = dir'[p]]
             /\ Len(new) = exporter.snapshot /\ new # <<>>
             /\ \A i \in DOMAIN new : new[i] = [run |-> new[1].run, seq |-> i]
             /\ dir[p] # 0 => exporter.overwrite
             /\ dir[p] # 0 => \A g \in Runs : writer[g] # dir[p]
             /\ dir[p] # 0 => dir[p] # dir[exporter.input]]_diskVars

-----------------------------------------------------------------------------
(* The inductive invariant behind it.                                      *)

Records == [run : Runs \cup {Old}, seq : Nat]

DiskTypeOK ==
    /\ dir \in [Paths -> Files \cup {0}]
    /\ rows \in [Files -> Seq(Records)]
    /\ writer \in [Runs -> Files \cup {0}]
    /\ exporter \in [at : {"idle", "open", "read", "publish", "killed"},
                     input : Paths \cup {0}, output : Paths \cup {0}, overwrite : BOOLEAN,
                     source : Files \cup {0}, snapshot : Nat, read : Nat,
                     run : Runs \cup {Old}, temporary : Files \cup {0}]

Exporting == exporter.at \in {"open", "read", "publish"}

\* A file holds the records of one run, from the first on.
OneRunAFile ==
    \A f \in Files : \A i \in DOMAIN rows[f] : rows[f][i] = [run |-> rows[f][1].run, seq |-> i]

\* A file that a game holds open is its own, and has begun.
WritersOwnTheirFiles ==
    \A g \in Runs : writer[g] # 0 =>
        /\ rows[writer[g]] # <<>> /\ rows[writer[g]][1].run = g
        /\ \A h \in Runs : writer[h] = writer[g] => h = g

\* The temporary file has no name and no writer, and what was read so far.
TemporaryIsOwn ==
    Exporting =>
        /\ exporter.temporary # 0
        /\ \A p \in Paths : dir[p] # exporter.temporary
        /\ \A g \in Runs : writer[g] # exporter.temporary
        /\ Len(rows[exporter.temporary]) = exporter.read
        /\ exporter.read > 0 => rows[exporter.temporary][1].run = exporter.run

\* The source and the destination stay two files while the export goes on.
ExportInPlace ==
    Exporting =>
        /\ exporter.input \in Paths /\ exporter.output \in Paths
        /\ dir[exporter.input] # 0 /\ dir[exporter.output] # dir[exporter.input]
        /\ exporter.at = "open" => exporter.read = 0
        /\ exporter.at = "read" => exporter.source # 0 /\ exporter.source # exporter.temporary
        /\ exporter.at = "publish" => exporter.read = exporter.snapshot /\ exporter.read > 0

DiskInv == DiskTypeOK /\ OneRunAFile /\ WritersOwnTheirFiles /\ TemporaryIsOwn /\ ExportInPlace
=============================================================================
