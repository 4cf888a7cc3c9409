--------------------------- MODULE InputPipeline ---------------------------
(***************************************************************************)
(* How InputProcess reads its input and hands the lines to                 *)
(* ProfilerProcess.                                                        *)
(*                                                                         *)
(* A folder of zeek logs, or the logs zeek is writing, are read side by    *)
(* side: one line of each file waits, and the one with the smallest        *)
(* timestamp is sent.  When zeek captures an interface it renames its logs *)
(* every day: filemonitor sees it and tells a thread of InputProcess, the  *)
(* remover, to close the old file; the reader then opens the new one.      *)
(* Other inputs are read line by line into one dictionary that is put in   *)
(* the queue again and again, and multiprocessing.Queue.put only remembers *)
(* the object: a feeder thread pickles it later.                           *)
(*                                                                         *)
(* Suricata and argus files (binetflow) differ in their first line, which  *)
(* of argus is always sent.                                                *)
(*                                                                         *)
(* The generations of a log are kept as one sequence of lines, each with   *)
(* the number of its generation and its timestamp.  Skip is the timestamp  *)
(* of a comment or a blank line, which is read but not sent.               *)
(***************************************************************************)
EXTENDS Integers, Sequences, FiniteSets

CONSTANTS
    File,       \* logs that slips reads (not those in ignored_files)
    Given,      \* the one file of the other inputs
    Kind,       \* the kinds of input to choose from
    Stamp,      \* timestamps of the lines of a folder or a text
    Captured,   \* timestamps of the lines zeek writes as it captures
    Skip,       \* no timestamp
    MaxLines,   \* bound: lines of a file, all generations together
    MaxGen      \* bound: generations of a file

Zeek == {"folder", "pcap", "interface"}
Text == {"stdin", "argus", "suricata", "nfdump"}

ASSUME InputAssumption ==
    /\ Given \in File
    /\ Kind \subseteq Zeek \cup Text
    /\ Stamp \subseteq Int /\ Captured \subseteq Int /\ Skip \in Int
    /\ MaxLines \in Nat
    /\ MaxGen \in Nat \ {0}

VARIABLES
    kind,       \* input_type
    disk,       \* file -> all lines written to it
    live,       \* files whose last generation is under its own name
    zeekfiles,  \* the redis set of logs
    events,     \* what the observer of filemonitor has still to handle
    renamed,    \* messages of remove_old_files the remover has not read
    remover,    \* control point of the remover thread
    handle,     \* the file object of a log: generation, and next line
    open_file_handlers,   \* the keys of that dictionary
    reader,     \* control point and locals of the reader
    cache_lines,          \* lines read and not sent, in the order of reading
    data,       \* line['data'] of the dictionary of the other inputs
    put,        \* history: the lines put in the queue
    received    \* those pickled and sent to ProfilerProcess

logs == <<kind, disk, live>>
monitor == <<zeekfiles, events, renamed>>
dict == <<handle, open_file_handlers>>
queue == <<data, put, received>>
vars == <<logs, monitor, remover, dict, reader, cache_lines, queue>>

Closed == [gen |-> 0, next |-> 0]
Stop == [file |-> Given, n |-> 0]
LineOf(f, i) == [file |-> f, n |-> i]

Gen(f) == IF disk[f] = <<>> THEN 0 ELSE disk[f][Len(disk[f])].gen
StampOf(l) == disk[l.file][l.n].ts
GenOf(l) == disk[l.file][l.n].gen

OpenedAtEnd(f) == [gen |-> Gen(f), next |-> Len(disk[f]) + 1]

(* open: the first line of the generation that has the file's name         *)
Opened(f) ==
    [gen |-> Gen(f),
     next |-> CHOOSE i \in DOMAIN disk[f] :
                 /\ disk[f][i].gen = Gen(f)
                 /\ \A j \in DOMAIN disk[f] : disk[f][j].gen = Gen(f) => i <= j]

(* readline returns something                                              *)
More(f) ==
    /\ handle[f].next \in DOMAIN disk[f]
    /\ disk[f][handle[f].next].gen = handle[f].gen

-----------------------------------------------------------------------------
(* A folder and a text are complete when they are read; zeek creates its   *)
(* logs as it captures.                                                    *)
Contents ==
    UNION {[1 .. n -> [gen : {1}, ts : Stamp \cup {Skip}]] : n \in 0 .. MaxLines}

Init ==
    /\ kind \in Kind
    /\ disk \in [File -> IF kind \in {"pcap", "interface"} THEN {<<>>}
                         ELSE Contents]
    /\ kind \in Text => \A f \in File \ {Given} : disk[f] = <<>>
    /\ kind = "argus" => disk[Given] # <<>>   \* readline of an empty file: ''
    /\ live = {f \in File : disk[f] # <<>>}
    /\ zeekfiles = IF kind = "folder" THEN File ELSE {}
    /\ events = <<>>
    /\ renamed = <<>>
    /\ remover = "wait"
    /\ handle = [f \in File |-> IF kind \in Text THEN [gen |-> 1, next |-> 1]
                                ELSE Closed]
    /\ open_file_handlers = {}
    /\ reader = [pc |-> IF kind \in Text THEN "text" ELSE "for",
                 todo |-> zeekfiles, file |-> Given, quiet |-> TRUE]
    /\ cache_lines = <<>>
    /\ data = 0
    /\ put = <<>>
    /\ received = <<>>

-----------------------------------------------------------------------------
(* zeek *)

ZeekWrites(f, t) ==
    /\ kind \in {"pcap", "interface"}
    /\ Len(disk[f]) < MaxLines
    /\ \/ /\ f \in live
          /\ disk' = [disk EXCEPT ![f] = Append(@, [gen |-> Gen(f), ts |-> t])]
          /\ UNCHANGED <<live, events>>
       \/ /\ f \notin live
          /\ disk' = [disk EXCEPT ![f] = Append(@, [gen |-> Gen(f) + 1, ts |-> t])]
          /\ live' = live \cup {f}
          /\ events' = Append(events, [type |-> "created", file |-> f])
    /\ UNCHANGED <<kind, zeekfiles, renamed, remover, dict, reader, cache_lines,
                   queue>>

(* Log::default_rotation_interval *)
ZeekRotates(f) ==
    /\ kind = "interface"
    /\ f \in live
    /\ Gen(f) < MaxGen
    /\ live' = live \ {f}
    /\ events' = Append(events, [type |-> "moved", file |-> f])
    /\ UNCHANGED <<kind, disk, zeekfiles, renamed, remover, dict, reader,
                   cache_lines, queue>>

-----------------------------------------------------------------------------
(* filemonitor: on_created, on_moved *)

Observe ==
    /\ events # <<>>
    /\ events' = Tail(events)
    /\ LET f == Head(events).file
       IN  \/ /\ Head(events).type = "created"
              /\ zeekfiles' = zeekfiles \cup {f}
              /\ UNCHANGED renamed
           \/ /\ Head(events).type = "moved"
              /\ renamed' = Append(renamed, f)
              /\ UNCHANGED zeekfiles
    /\ UNCHANGED <<logs, remover, dict, reader, cache_lines, queue>>

(* remove_old_zeek_files.  Its lock is an object of its own, which nobody  *)
(* else has: the reader goes on between close and del.                     *)
RemoverCloses ==
    /\ remover = "wait"
    /\ renamed # <<>>
    /\ LET f == Head(renamed)
       IN  \/ /\ f \in open_file_handlers
              /\ handle' = [handle EXCEPT ![f] = Closed]
              /\ remover' = "forget"
              /\ UNCHANGED renamed
           \/ /\ f \notin open_file_handlers
              /\ renamed' = Tail(renamed)
              /\ UNCHANGED <<handle, remover>>
    /\ UNCHANGED <<logs, zeekfiles, events, open_file_handlers, reader,
                   cache_lines, queue>>

RemoverForgets ==
    /\ remover = "forget"
    /\ open_file_handlers' = open_file_handlers \ {Head(renamed)}
    /\ renamed' = Tail(renamed)
    /\ remover' = "wait"
    /\ UNCHANGED <<logs, zeekfiles, events, handle, reader, cache_lines, queue>>

-----------------------------------------------------------------------------
(* read_zeek_files: a pass over the files, then one line is sent and the   *)
(* redis set is read again                                                 *)

(* A file that is open, one that can be opened, and one zeek has renamed   *)
(* and not created again                                                   *)
TakeFile(f) ==
    /\ reader.pc = "for"
    /\ f \in reader.todo
    /\ \/ /\ f \in open_file_handlers
          /\ reader' = [reader EXCEPT !.pc = "read", !.file = f]
          /\ UNCHANGED handle
       \/ /\ f \notin open_file_handlers
          /\ f \in live
          /\ handle' = [handle EXCEPT ![f] = Opened(f)]
          /\ reader' = [reader EXCEPT !.pc = "store", !.file = f]
       \/ /\ f \notin open_file_handlers
          /\ f \notin live
          /\ reader' = [reader EXCEPT !.todo = @ \ {f}]
          /\ UNCHANGED handle
    /\ UNCHANGED <<logs, monitor, remover, open_file_handlers, cache_lines,
                   queue>>

StoreHandle ==
    /\ reader.pc = "store"
    /\ open_file_handlers' = open_file_handlers \cup {reader.file}
    /\ reader' = [reader EXCEPT !.pc = "read"]
    /\ UNCHANGED <<logs, monitor, remover, handle, cache_lines, queue>>

Waits(f) == \E i \in DOMAIN cache_lines : cache_lines[i].file = f

(* One line, unless the previous one still waits, the remover has closed   *)
(* the file, or the file ends here                                         *)
ReadLine ==
    /\ reader.pc = "read"
    /\ LET f == reader.file
           l == LineOf(f, handle[f].next)
           read == ~ Waits(f) /\ handle[f] # Closed /\ More(f)
       IN  /\ reader' = [reader EXCEPT !.pc = "for", !.todo = @ \ {f},
                                       !.quiet = @ /\ ~ read]
           /\ handle' = [handle EXCEPT ![f].next = IF read THEN @ + 1 ELSE @]
           /\ cache_lines' = IF read /\ StampOf(l) # Skip
                             THEN Append(cache_lines, l) ELSE cache_lines
    /\ UNCHANGED <<logs, monitor, remover, open_file_handlers, queue>>

(* The smallest timestamp; sorted keeps the order of reading among equals  *)
FirstRead(c) == 1
Earliest(c) ==
    CHOOSE i \in DOMAIN c :
        \A j \in DOMAIN c : \/ StampOf(c[i]) < StampOf(c[j])
                            \/ StampOf(c[i]) = StampOf(c[j]) /\ i <= j

WithoutFirst(s, i) == Tail(s)
Without(s, i) == SubSeq(s, 1, i - 1) \o SubSeq(s, i + 1, Len(s))

SendEarliest ==
    /\ reader.pc = "for" /\ reader.todo = {}
    /\ cache_lines # <<>>
    /\ LET i == Earliest(cache_lines)
       IN  /\ put' = Append(put, cache_lines[i])
           /\ cache_lines' = Without(cache_lines, i)
    /\ reader' = [reader EXCEPT !.todo = zeekfiles, !.quiet = TRUE]
    /\ UNCHANGED <<logs, monitor, remover, dict, data, received>>

NothingToSend ==
    /\ reader.pc = "for" /\ reader.todo = {}
    /\ cache_lines = <<>>
    /\ reader' = [reader EXCEPT !.todo = zeekfiles, !.quiet = TRUE]
    /\ UNCHANGED <<logs, monitor, remover, dict, cache_lines, queue>>

(* bro_timeout: nothing was read for 1 or 30 seconds                       *)
Ends(k) == IF k \in {"folder", "stdin", "argus", "suricata"} THEN <<Stop>> ELSE <<>>

ReaderEnds ==
    /\ kind \in {"folder", "pcap"}
    /\ reader.pc = "for" /\ reader.todo = {}
    /\ cache_lines = <<>>
    /\ reader.quiet
    /\ reader' = [reader EXCEPT !.pc = "done"]
    /\ put' = put \o Ends(kind)
    /\ UNCHANGED <<logs, monitor, remover, dict, cache_lines, data, received>>

-----------------------------------------------------------------------------
(* read_from_stdin, handle_binetflow, handle_suricata, read_nfdump_output  *)

(* Blank lines, and those of nfdump that begin with no digit, are not put; *)
(* the first of an argus file, which may be a header, always is.           *)
Puts(l) == StampOf(l) # Skip \/ (kind = "argus" /\ l.n = 1)

(* line['data']: stdin and nfdump skip a line before they assign it, argus *)
(* and suricata assign it and then look whether it is blank.               *)
KeepsBlank == {"argus", "suricata"}
AssignedFirst(l) == l.n
Assigned(l) == IF Puts(l) \/ kind \in KeepsBlank THEN l.n ELSE data

(* Assigning the line and putting the dictionary are one step, as nobody   *)
(* can tell them apart.                                                    *)
ReadText ==
    /\ reader.pc = "text"
    /\ More(Given)
    /\ LET l == LineOf(Given, handle[Given].next)
       IN  /\ data' = Assigned(l)
           /\ put' = IF Puts(l) THEN Append(put, l) ELSE put
    /\ handle' = [handle EXCEPT ![Given].next = @ + 1]
    /\ UNCHANGED <<logs, monitor, remover, open_file_handlers, reader,
                   cache_lines, received>>

TextEnds ==
    /\ reader.pc = "text"
    /\ ~ More(Given)
    /\ reader' = [reader EXCEPT !.pc = "done"]
    /\ put' = put \o Ends(kind)
    /\ UNCHANGED <<logs, monitor, remover, dict, cache_lines, data, received>>

-----------------------------------------------------------------------------
(* The feeder thread pickles the oldest object in its buffer as it is now. *)
(* A line of a zeek log is an object of its own.                           *)
Pickled(l) == IF kind \in Text /\ l # Stop THEN LineOf(Given, data) ELSE l

Feed ==
    /\ Len(received) < Len(put)
    /\ received' = Append(received, Pickled(put[Len(received) + 1]))
    /\ UNCHANGED <<logs, monitor, remover, dict, reader, cache_lines, data, put>>

-----------------------------------------------------------------------------
ReaderStep ==
    \/ \E f \in File : TakeFile(f)
    \/ StoreHandle
    \/ ReadLine
    \/ SendEarliest
    \/ NothingToSend
    \/ ReadText
    \/ TextEnds

RemoverStep == RemoverCloses \/ RemoverForgets

Next ==
    \/ \E f \in File, t \in Captured : ZeekWrites(f, t)
    \/ \E f \in File : ZeekRotates(f)
    \/ Observe
    \/ RemoverStep
    \/ ReaderStep
    \/ ReaderEnds
    \/ Feed

(* The threads never block for ever; zeek may stop at any time.            *)
Fairness ==
    /\ WF_vars(Observe)
    /\ WF_vars(RemoverStep)
    /\ WF_vars(ReaderStep)
    /\ WF_vars(Feed)

Spec == Init /\ [][Next]_vars
FairSpec == Spec /\ Fairness

-----------------------------------------------------------------------------
Line == [file : File, n : 1 .. MaxLines]

TypeOK ==
    /\ kind \in Kind
    /\ disk \in [File -> Seq([gen : 1 .. MaxGen, ts : Stamp \cup Captured \cup {Skip}])]
    /\ live \subseteq File
    /\ zeekfiles \subseteq File
    /\ events \in Seq([type : {"created", "moved"}, file : File])
    /\ renamed \in Seq(File)
    /\ remover \in {"wait", "forget"}
    /\ handle \in [File -> [gen : 0 .. MaxGen, next : 0 .. MaxLines + 1]]
    /\ open_file_handlers \subseteq File
    /\ reader \in [pc : {"for", "store", "read", "text", "done"},
                   todo : SUBSET File, file : File, quiet : BOOLEAN]
    /\ cache_lines \in Seq(Line)
    /\ data \in 0 .. MaxLines
    /\ put \in Seq(Line \cup {Stop})
    /\ received \in Seq(Line \cup {Stop})

-----------------------------------------------------------------------------
(* Properties *)

LogSorted(f) ==
    \A i, j \in DOMAIN disk[f] :
        disk[f][i].ts # Skip /\ (i <= j => disk[f][i].ts <= disk[f][j].ts)

(* The sorted logs of a folder are merged into one sorted sequence.        *)
FolderSorted ==
    kind = "folder" /\ (\A f \in File : LogSorted(f)) =>
        \A i, j \in DOMAIN put :
            i < j /\ put[j] # Stop => StampOf(put[i]) <= StampOf(put[j])

(* A line is sent at most as often as the number of its generation: only   *)
(* the message of an earlier renaming that comes late makes the reader     *)
(* open a log again that it is reading.                                    *)
SentPerGeneration ==
    kind \in Zeek =>
        \A i \in DOMAIN put :
            put[i] # Stop =>
                Cardinality({j \in DOMAIN put : put[j] = put[i]})
                    <= GenOf(put[i])

(* What the shared dictionary of the text inputs may do to lines, and what *)
(* it may not.  The feeder pickles it late, so in the place of a line a    *)
(* later one may arrive: the lines between are lost and the later one      *)
(* arrives twice.  But no line arrives after a later one, nothing that     *)
(* stdin and nfdump skip arrives at all, and the line put last is not      *)
(* lost: in its place arrives that line or, of argus and suricata, a       *)
(* blank one that follows it.  Lines of zeek are objects of their own and  *)
(* arrive as they were put, and so does the stop.                          *)
Shared(i) == kind \in Text /\ put[i] # Stop
IsLast(i) == \A j \in DOMAIN put : put[j].n <= put[i].n

NeverBehind ==
    \A i \in DOMAIN received :
        IF ~ Shared(i) THEN received[i] = put[i]
        ELSE /\ received[i].file = Given
             /\ put[i].n <= received[i].n
             /\ Puts(received[i]) \/ kind \in KeepsBlank
             /\ \A j \in DOMAIN received :
                   i <= j /\ Shared(j) => received[i].n <= received[j].n
             /\ IsLast(i) =>
                   \A n \in put[i].n + 1 .. received[i].n : ~ Puts(LineOf(Given, n))

(* A line of a log that is never renamed reaches ProfilerProcess, unless   *)
(* the reader of a pcap has given up waiting for zeek.                     *)
Written(l) ==
    /\ kind \in Zeek
    /\ l.n \in DOMAIN disk[l.file] /\ StampOf(l) # Skip
    /\ Gen(l.file) = 1 /\ l.file \in live

LinesArrive ==
    \A f \in File, i \in 1 .. MaxLines :
        LET l == LineOf(f, i)
        IN  Written(l) ~> \/ \E k \in DOMAIN received : received[k] = l
                          \/ ~ Written(l)
                          \/ kind = "pcap" /\ reader.pc = "done"
=============================================================================
