------------------------------ MODULE BootNext ------------------------------
(***************************************************************************)
(* The bootnext flag files, from boot to boot: check_and_process_bootnext  *)
(* of src/src/boot.rs reads the first flag file it finds, pops its first   *)
(* line, rewrites the file and boots what it popped.  The disk survives a  *)
(* loss of power, which may come between any two steps; memory does not.   *)
(*                                                                         *)
(* A line is one cell of the file: lines are taken to have equal lengths,  *)
(* so that writing k lines at the start of a file replaces its first k.    *)
(***************************************************************************)
EXTENDS Integers, Sequences, FiniteSets, SeqFilter

CONSTANTS
    Entry,           \* the boot entries, each written to a file once
    NFiles,          \* the flag files in search order: on every volume
                     \* \bootnext.txt, then \EFI\bootnext.txt
    MaxLines,        \* bound: the lines a file is given
    MaxAttempts,     \* bound: the machine stays off after so many attempts
    DeleteMayFail,   \* the storage may refuse to delete
    RewriteMayFail,  \* ... to recreate or to write
    PowerMayFail

Blank == "blank"       \* an empty line
NoEntry == "none"
File == 1..NFiles
NoFile == 0

ASSUME BootNextAssumption ==
    /\ NFiles \in Nat \ {0}
    /\ MaxLines \in Nat /\ MaxAttempts \in Nat
    /\ Blank \notin Entry /\ NoEntry \notin Entry
    /\ {DeleteMayFail, RewriteMayFail, PowerMayFail} \subseteq BOOLEAN

VARIABLES
    kind,        \* disk: kind[f] is "list", "garbled" (unreadable or not UTF-8) or
                 \* "absent" (nothing, a directory, or not to be opened for writing)
    lines,       \* disk: lines[f], the content of a list
    pc,          \* "off", "scan", "delete", "recreate", "write", "boot",
                 \* "booting", "ready" (normal bootloader operation), "os"
    file,        \* the flag file being processed
    target,      \* target_path_str
    remaining,   \* remaining_lines
    issued,      \* history: issued[f], the entries the owner has put in f
    attempted,   \* history: the entries boot_os was called for
    faults       \* history: what has failed so far: "power", "delete", "rewrite"

diskVars == <<kind, lines>>
memVars == <<file, target, remaining>>
history == <<issued, attempted, faults>>
vars == <<kind, lines, pc, file, target, remaining, issued, attempted, faults>>

Init ==
    /\ kind \in [File -> {"absent", "garbled"}]
    /\ lines = [f \in File |-> << >>]
    /\ pc = "off"
    /\ file = NoFile
    /\ target = NoEntry
    /\ remaining = << >>
    /\ issued = [f \in File |-> << >>]
    /\ attempted = << >>
    /\ faults = {}

\* variant: empty lines are not filtered
PathsUnfiltered(s) == s

Paths(s) == Keep(s, Entry)     \* the lines that are not empty

Found(f) == kind[f] # "absent"
\* the volume and flag loops stop at the first file that opens
FirstFound == {f \in File : Found(f) /\ \A g \in 1..(f - 1) : ~Found(g)}

\* write at position 0 of a file that holds old: what lies beyond stays
Overwrite(old, new) == new \o SubSeq(old, Len(new) + 1, Len(old))

Fails(part) == faults' = faults \cup {part}

Forget == file' = NoFile /\ target' = NoEntry /\ remaining' = << >>

----------------------------------------------------------------------------
PowerOn ==
    /\ pc = "off"
    /\ Len(attempted) < MaxAttempts
    /\ pc' = "scan"
    /\ UNCHANGED <<diskVars, memVars, history>>

\* no flag file, or the first one cannot be read: it stays where it is
NothingToPop ==
    /\ pc = "scan"
    /\ \A f \in FirstFound : kind[f] = "garbled"
    /\ pc' = "ready"
    /\ UNCHANGED <<diskVars, memVars, history>>

\* FileHandle::delete, whose refusal is only logged
DeleteFile(f) ==
    \/ /\ kind' = [kind EXCEPT ![f] = "absent"]
       /\ lines' = [lines EXCEPT ![f] = << >>]
       /\ UNCHANGED faults
    \/ DeleteMayFail /\ Fails("delete") /\ UNCHANGED diskVars

\* variant: a file of empty lines stays
RemoveEmptyNot ==
    /\ pc = "scan"
    /\ \E f \in FirstFound : kind[f] = "list" /\ Paths(lines[f]) = << >>
    /\ pc' = "ready"
    /\ UNCHANGED <<diskVars, memVars, history>>

\* only empty lines: the file is removed
RemoveEmpty ==
    /\ pc = "scan"
    /\ \E f \in FirstFound : kind[f] = "list" /\ Paths(lines[f]) = << >> /\ DeleteFile(f)
    /\ pc' = "ready"
    /\ UNCHANGED <<memVars, issued, attempted>>

\* variant: the last line is taken
PopLast ==
    /\ pc = "scan"
    /\ \E f \in FirstFound :
          /\ kind[f] = "list"
          /\ Paths(lines[f]) # << >>
          /\ file' = f
          /\ target' = Last(Paths(lines[f]))
          /\ remaining' = Front(Paths(lines[f]))
    /\ pc' = "delete"
    /\ UNCHANGED <<diskVars, history>>

Pop ==
    /\ pc = "scan"
    /\ \E f \in FirstFound :
          /\ kind[f] = "list"
          /\ Paths(lines[f]) # << >>
          /\ file' = f
          /\ target' = Head(Paths(lines[f]))
          /\ remaining' = Tail(Paths(lines[f]))
    /\ pc' = "delete"
    /\ UNCHANGED <<diskVars, history>>

\* variant: the file is deleted and not written again
DeleteOnly ==
    /\ pc = "delete"
    /\ DeleteFile(file)
    /\ remaining' = << >>
    /\ pc' = "boot"
    /\ UNCHANGED <<file, target, issued, attempted>>

\* the update goes on even if the file is still there
Delete ==
    /\ pc = "delete"
    /\ DeleteFile(file)
    /\ pc' = IF remaining = << >> THEN "boot" ELSE "recreate"
    /\ UNCHANGED <<memVars, issued, attempted>>

\* CreateReadWrite: creates the file, or opens the one that is still there
Recreate ==
    /\ pc = "recreate"
    /\ kind' = [kind EXCEPT ![file] = "list"]
    /\ pc' = "write"
    /\ UNCHANGED <<lines, memVars, history>>

RecreateFails ==
    /\ RewriteMayFail
    /\ pc = "recreate"
    /\ remaining' = << >>
    /\ Fails("rewrite")
    /\ pc' = "boot"
    /\ UNCHANGED <<diskVars, file, target, issued, attempted>>

\* variant: the popped line is written back with the others
StoreAll(n) ==
    lines' = [lines EXCEPT ![file] = Overwrite(@, <<target>> \o SubSeq(remaining, 1, n))]

\* the first n of the remaining lines reach the disk
Store(n) == lines' = [lines EXCEPT ![file] = Overwrite(@, SubSeq(remaining, 1, n))]

\* write and flush; a failed write leaves the lines it got to
Write ==
    /\ pc = "write"
    /\ \E n \in 0..Len(remaining) :
          /\ Store(n)
          /\ IF n < Len(remaining) THEN RewriteMayFail /\ Fails("rewrite")
             ELSE UNCHANGED faults
    /\ remaining' = << >>
    /\ pc' = "boot"
    /\ UNCHANGED <<kind, file, target, issued, attempted>>

\* fs and root are closed, and boot_os is called with the popped path
Boot ==
    /\ pc = "boot"
    /\ attempted' = Append(attempted, target)
    /\ Forget
    /\ pc' = "booting"
    /\ UNCHANGED <<diskVars, issued, faults>>

\* boot_os returns, with an error or without, and the bootloader starts normally ...
BootComesBack ==
    /\ pc = "booting"
    /\ pc' = "ready"
    /\ UNCHANGED <<diskVars, memVars, history>>

\* ... or the image takes the machine over
BootTakesOver ==
    /\ pc = "booting"
    /\ pc' = "os"
    /\ UNCHANGED <<diskVars, memVars, history>>

----------------------------------------------------------------------------
(* external: the owner of the machine, and its power                        *)

ShutDown ==
    /\ pc \in {"ready", "os"}
    /\ pc' = "off"
    /\ UNCHANGED <<diskVars, memVars, history>>

\* Between two boots a file is written, with entries that no file has held
\* before, when there is none.
Put(f) ==
    /\ pc = "off"
    /\ kind[f] = "absent"
    /\ \E s \in BoundedSeq((Entry \ UNION {Range(issued[g]) : g \in File}) \cup {Blank}, MaxLines) :
          /\ IsInjective(Paths(s))
          /\ Len(s) - Len(Paths(s)) <= 1    \* bound: empty lines of a file
          /\ lines' = [lines EXCEPT ![f] = s]
          /\ issued' = [issued EXCEPT ![f] = @ \o Paths(s)]
    /\ kind' = [kind EXCEPT ![f] = "list"]
    /\ UNCHANGED <<pc, memVars, attempted, faults>>

\* anywhere else it is like ShutDown
PowerFails ==
    /\ PowerMayFail
    /\ pc \in {"scan", "delete", "recreate", "write", "boot"}
    /\ pc' = "off"
    /\ Forget
    /\ IF pc = "write" THEN \E n \in 0..Len(remaining) : Store(n) ELSE UNCHANGED lines
    /\ Fails("power")
    /\ UNCHANGED <<kind, issued, attempted>>

BootloaderStep ==
    \/ PowerOn \/ NothingToPop \/ RemoveEmpty \/ Pop \/ Delete \/ Recreate
    \/ RecreateFails \/ Write \/ Boot \/ BootComesBack \/ BootTakesOver

Next ==
    \/ BootloaderStep
    \/ ShutDown
    \/ \E f \in File : Put(f)
    \/ PowerFails

Spec == Init /\ [][Next]_vars

\* The bootloader runs to its end and the machine is booted again and again.
FairSpec == Spec /\ WF_vars(BootloaderStep \/ ShutDown)

----------------------------------------------------------------------------
TypeOK ==
    /\ kind \in [File -> {"absent", "list", "garbled"}]
    /\ lines \in [File -> Seq(Entry \cup {Blank})]
    /\ pc \in {"off", "scan", "delete", "recreate", "write", "boot", "booting", "ready", "os"}
    /\ file \in File \cup {NoFile}
    /\ target \in Entry \cup {NoEntry}
    /\ remaining \in Seq(Entry)
    /\ issued \in [File -> Seq(Entry)]
    /\ attempted \in Seq(Entry)
    /\ faults \subseteq {"power", "delete", "rewrite"}

\* If both were put in one file, x was put there before y; x = y is refused.
Precedes(x, y) ==
    \A f \in File : \A m, n \in DOMAIN issued[f] :
        (x = issued[f][m] /\ y = issued[f][n]) => m < n
Ascending(s) == \A i, j \in DOMAIN s : i < j => Precedes(s[i], s[j])

\* boot.rs 427-477: an entry is booted at most once, however often power fails,
\* and the entries of a file are booted in the order they were written, unless
\* the storage has refused to delete a file.
AttemptedInOrder == "delete" \notin faults => Ascending(attempted)

\* Where the locals hold something.
PcSound ==
    /\ IF pc \in {"delete", "recreate", "write", "boot"}
       THEN file \in File /\ target \in Entry
       ELSE file = NoFile /\ target = NoEntry /\ remaining = << >>
    /\ pc = "boot" => remaining = << >>

\* What is left of the file that is being rewritten: nothing, or, if it could
\* not be deleted, all it held.
DiskSound ==
    /\ \A f \in File : kind[f] # "list" => lines[f] = << >>
    /\ pc \in {"delete", "recreate", "write"} =>
          \/ Paths(lines[file]) = <<target>> \o remaining
                /\ (pc = "delete" \/ "delete" \in faults)
          \/ lines[file] = << >> /\ pc # "delete"
    /\ pc = "write" => kind[file] = "list"

\* No entry is put in two places, and nothing appears from nowhere.
OriginSound ==
    /\ \A f, g \in File : \A m \in DOMAIN issued[f], n \in DOMAIN issued[g] :
          issued[f][m] = issued[g][n] => f = g /\ m = n
    /\ \A f \in File : Range(Paths(lines[f])) \subseteq Range(issued[f])
    /\ file # NoFile => {target} \cup Range(remaining) \subseteq Range(issued[file])
    /\ Range(attempted) \subseteq UNION {Range(issued[f]) : f \in File}

AllPrecede(A, B) == \A x \in A, y \in B : Precedes(x, y)
Stored == UNION {Range(Paths(lines[f])) : f \in File}

\* What was tried, what is in hand and what is on disk are in order, each in
\* itself and one after the other.
OrderSound == "delete" \notin faults =>
    /\ Ascending(attempted) /\ Ascending(remaining)
    /\ \A f \in File : Ascending(Paths(lines[f]))
    /\ AllPrecede(Range(attempted), Stored \cup Range(remaining) \cup ({target} \ {NoEntry}))
    /\ AllPrecede({target} \ {NoEntry}, Range(remaining))
    /\ pc \in {"recreate", "write", "boot"} => AllPrecede({target}, Stored)

\* The inductive invariant.
IInv == TypeOK /\ PcSound /\ DiskSound /\ OriginSound /\ OrderSound

\* The entries that are still on disk, in hand, or tried.
Known ==
    Stored \cup Range(remaining) \cup ({target} \ {NoEntry}) \cup Range(attempted)

\* boot.rs 436-477: entries vanish untried only between the delete of a file
\* and the end of its rewrite (the popped one until it is booted), and only
\* those of that file.  A loss at any other step loses nothing.
LossEnvelope ==
    [][LET lost == Known \ Known' IN
         \/ lost = {}
         \/ pc \in {"recreate", "write"} /\ lost \subseteq {target} \cup Range(remaining)
         \/ pc = "boot" /\ lost \subseteq {target}]_vars

\* Unless something fails, every entry is booted if the machine is booted often
\* enough and its owner stops putting files before the entry's own; no file of
\* empty lines hides those behind it.  One that cannot be read does.
OwnerStops == <>[][\A f \in File : ~Put(f)]_vars
EveryEntryIsTried ==
    OwnerStops => \A e \in Entry :
        (/\ \E f \in File : e \in Range(issued[f])
         /\ \A f \in File : kind[f] # "garbled")
            ~> (e \in Range(attempted) \/ faults # {})

\* The abstract queues: while a file is rewritten its queue is what is going to
\* be written.
Rewriting(f) == pc \in {"recreate", "write"} /\ file = f
BQ == INSTANCE BootQueue
        WITH queue <- [f \in File |-> IF Rewriting(f) THEN remaining ELSE Paths(lines[f])],
             hand <- IF pc \in {"recreate", "write", "boot"} THEN target ELSE NoEntry,
             source <- IF pc \in {"recreate", "write"} THEN file ELSE NoFile,
             sticky <- "delete" \in faults

\* boot.rs 351-509: check_and_process_bootnext implements the queues, whatever
\* fails; they keep what they promise until the storage refuses a delete.
ImplementsBootQueue == BQ!Spec
=============================================================================
