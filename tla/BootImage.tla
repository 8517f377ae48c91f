------------------------------ MODULE BootImage ------------------------------
(***************************************************************************)
(* The search for something to start in src/src/boot.rs: boot_os with the  *)
(* path of an EFI image or of a .conf entry, and boot_linux_direct, which  *)
(* tries every entry file of every volume; both start Linux through        *)
(* boot_linux_from_entry_file.  One call is modelled, from its beginning   *)
(* to its return or to the image that never comes back.                    *)
(*                                                                         *)
(* A candidate is a file the call may find: what it leads to, its fate, is *)
(* fixed by the disk and the firmware before the call.                     *)
(***************************************************************************)
EXTENDS Integers, Sequences, SeqFilter

CONSTANTS NVolumes,      \* the handles with a SimpleFileSystem
          MaxEntries     \* bound: the .conf entries of a volume

Volume == 1..NVolumes

\* "unreadable": not opened, not read, not UTF-8, without `linux` key, the kernel
\*   or the device path not available; "notLoaded": load_image fails;
\* "notPrepared": (Linux only) no LoadedImage protocol, or options that have no
\*   UCS-2 form; "fails", "returns": start_image comes back with an error or
\*   with Ok; "takesOver": it does not come back
Fate == {"unreadable", "notLoaded", "notPrepared", "fails", "returns", "takesOver"}
FatesOf(c) == IF c = "os" THEN Fate \ {"notPrepared"} ELSE Fate
Candidate == [fallback : BOOLEAN, fate : Fate]

ASSUME BootImageAssumption == NVolumes \in Nat /\ MaxEntries \in Nat \ {0}

VARIABLES
    call,      \* "os": boot_os of an image; "conf": boot_os of a .conf path;
               \* "direct": boot_linux_direct
    disk,      \* disk[v]: the candidates in the order they are read; none in a
               \* volume that cannot be opened or does not have the file or directory
    pc,        \* "begin", "volume", "candidate", "prepare", "start", "running",
               \* "ok" and "failed" (returned), "gone" (taken over)
    volume,    \* the volume of the outer loop
    todo,      \* the candidates of this volume that are left, as indices
    loaded,    \* the images in memory that have not run, <<volume, index>>
    started    \* history: start_image was called for these, in this order

vars == <<call, disk, pc, volume, todo, loaded, started>>

Init ==
    /\ call \in {"os", "conf", "direct"}
    /\ disk \in [Volume ->
            IF call = "direct" THEN BoundedSeq(Candidate, MaxEntries)
            ELSE BoundedSeq([fallback : {FALSE}, fate : FatesOf(call)], 1)]    \* one path
    /\ pc = "begin"
    /\ volume = 1
    /\ todo = << >>
    /\ loaded = {}
    /\ started = << >>

Current == <<volume, Head(todo)>>
FateOf(c) == disk[c[1]][c[2]].fate
IsFallback(c) == disk[c[1]][c[2]].fallback

\* variant: the entries are tried in the order they are read
Unsorted(v) == [i \in 1..Len(disk[v]) |-> i]

\* sort_by is stable: entries with "fallback" in their name go last
Sorted(v) ==
    LET all == [i \in DOMAIN disk[v] |-> i]
        last == {i \in DOMAIN disk[v] : disk[v][i].fallback}
    IN  Keep(all, DOMAIN disk[v] \ last) \o Keep(all, last)

----------------------------------------------------------------------------
\* find_handles fails, or not
Begin ==
    /\ pc = "begin"
    /\ pc' \in {"volume", "failed"}
    /\ UNCHANGED <<call, disk, volume, todo, loaded, started>>

SkipVolume ==
    /\ pc = "volume"
    /\ volume \in Volume
    /\ disk[volume] = << >>
    /\ volume' = volume + 1
    /\ UNCHANGED <<call, disk, pc, todo, loaded, started>>

OpenVolume ==
    /\ pc = "volume"
    /\ volume \in Volume
    /\ disk[volume] # << >>
    /\ todo' = Sorted(volume)
    /\ pc' = "candidate"
    /\ UNCHANGED <<call, disk, volume, loaded, started>>

VolumeDone ==
    /\ pc = "candidate"
    /\ todo = << >>
    /\ volume' = volume + 1
    /\ pc' = "volume"
    /\ UNCHANGED <<call, disk, todo, loaded, started>>

\* every volume was searched
GiveUp ==
    /\ pc = "volume"
    /\ volume \notin Volume
    /\ pc' = "failed"
    /\ UNCHANGED <<call, disk, volume, todo, loaded, started>>

OsLoads == call = "os" /\ FateOf(Current) \notin {"unreadable", "notLoaded"}
KernelLoads == call # "os" /\ FateOf(Current) \notin {"unreadable", "notLoaded"}

\* variant: the search ends with the first candidate that fails
AbandonAll == todo' = << >> /\ volume' = NVolumes + 1 /\ pc' = "candidate"

\* `continue`, with the next volume or the next entry
Abandon == todo' = Tail(todo) /\ pc' = "candidate" /\ UNCHANGED volume

LoadFails ==
    /\ pc = "candidate"
    /\ todo # << >>
    /\ ~OsLoads /\ ~KernelLoads
    /\ Abandon
    /\ UNCHANGED <<call, disk, loaded, started>>

Load ==
    /\ pc = "candidate"
    /\ todo # << >>
    /\ OsLoads \/ KernelLoads
    /\ loaded' = loaded \cup {Current}
    /\ pc' = IF call = "os" THEN "start" ELSE "prepare"
    /\ UNCHANGED <<call, disk, volume, todo, started>>

\* variant: the image is not unloaded
PrepareFailsOnly ==
    /\ pc = "prepare"
    /\ FateOf(Current) = "notPrepared"
    /\ Abandon
    /\ UNCHANGED <<call, disk, loaded, started>>

PrepareFails ==
    /\ pc = "prepare"
    /\ FateOf(Current) = "notPrepared"
    /\ loaded' = loaded \ {Current}
    /\ Abandon
    /\ UNCHANGED <<call, disk, started>>

\* set_load_options
Prepare ==
    /\ pc = "prepare"
    /\ FateOf(Current) # "notPrepared"
    /\ pc' = "start"
    /\ UNCHANGED <<call, disk, volume, todo, loaded, started>>

\* the log is flushed, and after a second and a half the image gets control
Start ==
    /\ pc = "start"
    /\ started' = Append(started, Current)
    /\ pc' = "running"
    /\ UNCHANGED <<call, disk, volume, todo, loaded>>

\* start_image returns an error: the image is unloaded
StartFails ==
    /\ pc = "running"
    /\ FateOf(Current) = "fails"
    /\ loaded' = loaded \ {Current}
    /\ Abandon
    /\ UNCHANGED <<call, disk, started>>

\* variant: boot_os goes on after an image that returned
ImageReturnsOnwards ==
    /\ pc = "running"
    /\ FateOf(Current) = "returns"
    /\ loaded' = loaded \ {Current}
    /\ Abandon
    /\ UNCHANGED <<call, disk, started>>

\* start_image returns Ok, and the firmware has unloaded the image: boot_os
\* returns; boot_linux_direct goes on with the next entry
ImageReturns ==
    /\ pc = "running"
    /\ FateOf(Current) = "returns"
    /\ loaded' = loaded \ {Current}
    /\ IF call = "direct" THEN Abandon ELSE pc' = "ok" /\ UNCHANGED <<volume, todo>>
    /\ UNCHANGED <<call, disk, started>>

ImageTakesOver ==
    /\ pc = "running"
    /\ FateOf(Current) = "takesOver"
    /\ pc' = "gone"
    /\ UNCHANGED <<call, disk, volume, todo, loaded, started>>

Over == pc \in {"ok", "failed", "gone"} /\ UNCHANGED vars

Next ==
    \/ Begin \/ SkipVolume \/ OpenVolume \/ VolumeDone \/ GiveUp
    \/ LoadFails \/ Load \/ PrepareFails \/ Prepare
    \/ Start \/ StartFails \/ ImageReturns \/ ImageTakesOver
    \/ Over

Spec == Init /\ [][Next]_vars

----------------------------------------------------------------------------
TypeOK ==
    /\ call \in {"os", "conf", "direct"}
    /\ disk \in [Volume -> Seq(Candidate)]
    /\ pc \in {"begin", "volume", "candidate", "prepare", "start", "running", "ok",
               "failed", "gone"}
    /\ volume \in 1..(NVolumes + 1)
    /\ todo \in Seq(1..MaxEntries)
    /\ loaded \subseteq Volume \X (1..MaxEntries)
    /\ started \in Seq(Volume \X (1..MaxEntries))

\* Every candidate there is, and which of two is to be tried first.
Candidates == UNION {{v} \X DOMAIN disk[v] : v \in Volume}

Before(c, d) ==
    \/ c[1] < d[1]
    \/ c[1] = d[1] /\ ~IsFallback(c) /\ IsFallback(d)
    \/ c[1] = d[1] /\ IsFallback(c) = IsFallback(d) /\ c[2] < d[2]

CanStart(c) == FateOf(c) \in {"fails", "returns", "takesOver"}

\* boot.rs 211-241 and 254-345: images are started volume by volume, in one
\* volume fallback entries last; none twice; none before one that should have
\* been tried first, whatever failed on the way; and all before giving up.
StartedInOrder ==
    /\ \A j, k \in DOMAIN started : j < k => Before(started[j], started[k])
    /\ \A c \in Candidates : CanStart(c) =>
          \/ c \in Range(started)
          \/ pc # "failed" /\ \A k \in DOMAIN started : Before(started[k], c)
          \/ pc = "failed" /\ volume = 1 /\ started = << >>    \* no handles

\* boot.rs 166, 174, 196, 340: whichever step fails, no image that did not run
\* stays in memory: at most the one being prepared, started or running.
NoImageLeft ==
    loaded = IF pc \in {"prepare", "start", "running", "gone"} THEN {Current} ELSE {}

\* boot.rs 271, 344, 348: boot_os returns Ok exactly when an image it started
\* returned Ok, and starts nothing after that one.
BootOsTellsTheTruth ==
    call # "direct" =>
        /\ pc = "ok" <=> pc # "running" /\ \E c \in Range(started) : FateOf(c) = "returns"
        /\ \A k \in 1..(Len(started) - 1) : FateOf(started[k]) # "returns"

\* What the disk holds does not exceed the bounds, nor what the call meets.
DiskSound ==
    \A v \in Volume :
        /\ Len(disk[v]) <= MaxEntries
        /\ call = "os" => \A i \in DOMAIN disk[v] : disk[v][i].fate # "notPrepared"

\* Where the locals hold something, and what got a candidate there.
PcSound ==
    /\ pc = "begin" => volume = 1 /\ started = << >>
    /\ pc \in {"begin", "volume", "failed"} => todo = << >>
    /\ pc \in {"candidate", "prepare", "start", "running", "ok", "gone"} =>
          volume \in Volume /\ Range(todo) \subseteq DOMAIN disk[volume]
    /\ pc \in {"prepare", "start", "running", "ok", "gone"} => todo # << >>
    /\ pc = "prepare" => call # "os" /\ FateOf(Current) \notin {"unreadable", "notLoaded"}
    /\ pc \in {"start", "running"} => CanStart(Current)
    /\ pc \in {"running", "ok", "gone"} => started # << >> /\ Last(started) = Current
    /\ pc = "failed" => volume \notin Volume \/ (volume = 1 /\ started = << >>)

\* The candidates the search has not passed yet.
Ahead ==
    IF pc \in {"begin", "volume"} THEN {c \in Candidates : volume <= c[1]}
    ELSE {c \in Candidates : volume < c[1] \/ (volume = c[1] /\ c[2] \in Range(todo))}

\* What was started comes before what is ahead, which comes in order; what can
\* be started is one or the other.
SearchSound ==
    /\ \A j, k \in DOMAIN started : j < k => Before(started[j], started[k])
    /\ \A j, k \in DOMAIN todo : j < k => Before(<<volume, todo[j]>>, <<volume, todo[k]>>)
    /\ \A c \in Range(started), d \in Ahead :
          Before(c, d) \/ (pc \in {"running", "ok", "gone"} /\ d = Current)
    /\ pc # "failed" =>
          \A c \in Candidates : CanStart(c) => c \in Range(started) \cup Ahead
    /\ pc = "failed" =>
          \/ volume = 1 /\ started = << >>
          \/ \A c \in Candidates : CanStart(c) => c \in Range(started)

\* An image that returned ends boot_os.
ReturnSound ==
    /\ pc = "ok" => call # "direct" /\ FateOf(Current) = "returns"
    /\ call # "direct" => \A k \in DOMAIN started :
          FateOf(started[k]) = "returns" => k = Len(started) /\ pc \in {"running", "ok"}

\* The inductive invariant.
IInv == TypeOK /\ DiskSound /\ PcSound /\ SearchSound /\ NoImageLeft /\ ReturnSound

\* boot.rs 243: "Could not find or directly boot Linux", logged when
\* boot_linux_direct has been through all volumes.
FailedMeansNotBooted ==
    (call = "direct" /\ pc = "failed") => \A c \in Range(started) : FateOf(c) # "returns"
=============================================================================
