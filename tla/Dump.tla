-------------------------------- MODULE Dump --------------------------------
(***************************************************************************)
(* The conductor's dump file (write_dump in src/src/conductor/setup.cpp),  *)
(* beside the handshake: written every few seconds, on SIGUSR1 and before  *)
(* main returns (then the process ends after it, as it may after any).     *)
(* The only thread of the process writes it, so the rosters stand still    *)
(* meanwhile; signals, the other processes and a crash do not.  The steps  *)
(* are the ones that a signal handler or the file system tells apart.      *)
(***************************************************************************)
EXTENDS Mip

CONSTANTS
    Torn,               \* a file that is still being written
    Spoiled,            \* a file that could not be written to its end
    MaxDumps            \* bound: dumps in a behaviour, which ends with the last of them

\* Of a dump, the names of the switches and the switches of the pending tokens.
Content == [switches : SUBSET Switches, pending_tokens : SUBSET Switches]

ASSUME FileContentAssumption ==
    Torn # Spoiled /\ None \notin {Torn, Spoiled} /\ Torn \notin Content /\ Spoiled \notin Content

VARIABLES
    dump_pc,            \* where main is in its dump, or "no"
    g_dump_request,
    tmp,                \* the temporary file of this dump: what is in it, or None
    file,               \* the dump file: what is in it
    owed,               \* history: a signal has come since the last snapshot
    dumps               \* how many so far

dump_vars == <<dump_pc, g_dump_request, tmp, file, owed, dumps>>

\* What a dump that is made now holds.
Snapshot ==
    [switches |-> {cdt_info[c].name : c \in Members(switches)},
     pending_tokens |-> {p.switch : p \in pending_tokens}]

\* An earlier process has left a dump, with nobody registered.
DumpInit ==
    /\ Init
    /\ dump_pc = "no" /\ g_dump_request = FALSE /\ owed = FALSE
    /\ tmp = None /\ file = Snapshot /\ dumps = 0

-----------------------------------------------------------------------------
\* At any time.
on_sigusr1 ==
    /\ cdt_up
    /\ g_dump_request' = TRUE /\ owed' = TRUE
    /\ UNCHANGED <<dump_pc, tmp, file, dumps>>

Begins(pc) ==
    /\ Idle /\ dump_pc = "no" /\ dumps < MaxDumps
    /\ dump_pc' = pc /\ dumps' = dumps + 1
    /\ UNCHANGED <<g_dump_request, tmp, file, owed>>
\* DUMP_INTERVAL has passed, or the loop has ended.
TimedDump == Begins("collect")
\* A request is served: the flag is seen, and reset before the dump.
DumpRequested == g_dump_request /\ Begins("reset")
ResetRequest ==
    /\ dump_pc = "reset"
    /\ dump_pc' = "collect" /\ g_dump_request' = FALSE
    /\ UNCHANGED <<tmp, file, owed, dumps>>

\* write_dump makes the message from the rosters and opens the temporary file.  What
\* a dump leaves in there is truncated by the next one.
Returns == dump_pc' = "no" /\ tmp' = None
Collects == dump_pc = "collect" /\ owed' = FALSE /\ UNCHANGED <<g_dump_request, dumps>>
Opens_InPlace ==        \* mutant of Opens: there is no temporary file
    Collects /\ dump_pc' = "serialize" /\ tmp' = Torn /\ file' = Torn
Opens == Collects /\ dump_pc' = "serialize" /\ tmp' = Torn /\ UNCHANGED file
OpenFails == Collects /\ Returns /\ UNCHANGED file

InFile_Resets(pc) ==    \* mutant of InFile: the flag is reset once more, after the dump
    dump_pc = pc /\ g_dump_request' = FALSE /\ UNCHANGED <<owed, dumps>>
InFile(pc) == dump_pc = pc /\ UNCHANGED <<g_dump_request, owed, dumps>>
Serializes == InFile("serialize") /\ dump_pc' = "rename" /\ tmp' = Snapshot /\ UNCHANGED file
SerializeFails == InFile("serialize") /\ Returns /\ UNCHANGED file
\* The stream writes its buffer in out.close(), and nobody looks whether it could.
CloseFails == InFile("serialize") /\ dump_pc' = "rename" /\ tmp' = Spoiled /\ UNCHANGED file

Renames == InFile("rename") /\ Returns /\ file' = tmp
RenameFails == InFile("rename") /\ Returns /\ UNCHANGED file

DumpSteps ==
    /\ \/ on_sigusr1
       \/ TimedDump \/ DumpRequested \/ ResetRequest
       \/ Opens \/ OpenFails
       \/ Serializes \/ SerializeFails \/ CloseFails
       \/ Renames \/ RenameFails
    /\ UNCHANGED vars

-----------------------------------------------------------------------------
(***************************************************************************)
(* A step of the handshake.  The conductor takes none of its own while it  *)
(* dumps; when its process ends, the files are what is left of it.         *)
(***************************************************************************)
Forgets ==
    /\ dump_pc' = "no" /\ g_dump_request' = FALSE /\ owed' = FALSE /\ tmp' = None
    /\ UNCHANGED <<file, dumps>>
CdtStill ==
    UNCHANGED cdt_vars /\ \A c \in Conn : srv[c] = CDT => srv_up'[c] = srv_up[c]
HandshakeSteps ==
    /\ Next
    /\ IF cdt_up /\ ~cdt_up' THEN Forgets
       ELSE UNCHANGED dump_vars /\ (dump_pc = "no" \/ CdtStill)

\* The last dump leaves nothing behind but the file, so nothing is left to see.
Ended == dumps = MaxDumps /\ dump_pc = "no"
DumpNext == ~Ended /\ (DumpSteps \/ HandshakeSteps)
DumpSpec == DumpInit /\ [][DumpNext]_<<vars, dump_vars>>

-----------------------------------------------------------------------------
(***************************************************************************)
(* The comment in write_dump: "Write atomically: temp file + rename".      *)
(* Whatever step fails, whenever the process dies and whatever the         *)
(* conductor has been through, the dump file is never found half written,  *)
(* and every pending token in it names a switch in it.  (It may be Spoiled *)
(* after a failure of out.close() that nobody sees.)                       *)
(***************************************************************************)
DumpWhole ==
    /\ file # Torn
    /\ file \notin {Torn, Spoiled} =>
          file.pending_tokens \subseteq file.switches

(***************************************************************************)
(* No request is lost: one that came after the last snapshot is still      *)
(* flagged, or the dump under way has its snapshot still to take.          *)
(***************************************************************************)
RequestKept == owed => g_dump_request \/ dump_pc = "collect"
=============================================================================
