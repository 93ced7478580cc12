----------------------------- MODULE DumpProofs -----------------------------
(***************************************************************************)
(* The dump file is whole and no request for a dump is lost, for every     *)
(* number of processes and dumps.  The dump never interferes with the      *)
(* handshake, so all that is proved of Mip holds beside it; that every     *)
(* pending token has a switch is what makes a snapshot consistent.         *)
(***************************************************************************)
EXTENDS Dump, MipProofs

\* The dumps that refer to no switch they do not have.
Consistent == {d \in Content : d.pending_tokens \subseteq d.switches}

(***************************************************************************)
(* The inductive invariant: what is about to be renamed has been written   *)
(* to its end, as far as write_dump can see.                               *)
(***************************************************************************)
DumpInv ==
    /\ file \in Consistent \cup {Spoiled}
    /\ dump_pc = "rename" => tmp \in Consistent \cup {Spoiled}
    /\ RequestKept

\* What the conductor has in its rosters makes a consistent dump.
LEMMA SnapshotConsistent ==
    ASSUME IInv
    PROVE  Snapshot \in Consistent
<1>1. \A c \in Members(switches) : c \in Conn /\ cdt_info[c].name \in Switches
  <2>1. \A c \in Members(switches) : c \in Conn
    BY ElementOfSeq DEF IInv, TypeOK, CdtTypeOK, Members
  <2> QED BY <2>1 DEF IInv, RosterValid, CdtInv
<1>2. \A p \in pending_tokens : p.switch \in Switches
  BY DEF IInv, TypeOK, CdtTypeOK, PendingTokenInfo
<1>3. \A p \in pending_tokens : \E c \in Members(switches) : cdt_info[c].name = p.switch
  BY DEF IInv, PendingHasSwitch
<1> QED BY <1>1, <1>2, <1>3 DEF Snapshot, Consistent, Content

\* Every step of a dump.
LEMMA DumpStep ==
    ASSUME IInv, DumpInv, DumpSteps
    PROVE  DumpInv'
<1> USE DEF DumpInv, RequestKept
<1>1. CASE on_sigusr1
  BY <1>1 DEF on_sigusr1
<1>2. CASE TimedDump \/ DumpRequested
  BY <1>2 DEF TimedDump, DumpRequested, Begins
<1>3. CASE ResetRequest
  BY <1>3 DEF ResetRequest
<1>4. CASE Opens \/ OpenFails
  BY <1>4 DEF Opens, OpenFails, Collects, Returns
<1>5. CASE Serializes
  BY <1>5, SnapshotConsistent DEF Serializes, InFile
<1>6. CASE CloseFails
  BY <1>6 DEF CloseFails, InFile
<1>7. CASE SerializeFails \/ RenameFails
  BY <1>7 DEF SerializeFails, RenameFails, InFile, Returns
<1>8. CASE Renames
  BY <1>8 DEF Renames, InFile, Returns
<1> QED BY <1>1, <1>2, <1>3, <1>4, <1>5, <1>6, <1>7, <1>8 DEF DumpSteps

LEMMA DumpNextInv == IInv /\ DumpInv /\ [DumpNext]_<<vars, dump_vars>> => DumpInv'
<1> SUFFICES ASSUME IInv, DumpInv, [DumpNext]_<<vars, dump_vars>> PROVE DumpInv'
  OBVIOUS
<1>1. CASE DumpSteps
  BY <1>1, DumpStep
<1>2. CASE HandshakeSteps
  BY <1>2 DEF HandshakeSteps, Forgets, dump_vars, DumpInv, RequestKept
<1>3. CASE UNCHANGED <<vars, dump_vars>>
  BY <1>3 DEF dump_vars, DumpInv, RequestKept
<1> QED BY <1>1, <1>2, <1>3 DEF DumpNext

-----------------------------------------------------------------------------
\* Dumps, their failures and signals leave the handshake alone: what it does beside them
\* is what it does without them.
THEOREM DumpKeepsHandshake == DumpSpec => Spec
<1>1. DumpInit => Init
  BY DEF DumpInit
<1>2. [DumpNext]_<<vars, dump_vars>> => [Next]_vars
  BY DEF DumpNext, DumpSteps, HandshakeSteps
<1> QED BY <1>1, <1>2, PTL DEF DumpSpec, Spec

LEMMA DumpInductive == DumpSpec => []DumpInv
<1>1. DumpInit => DumpInv
  <2> SUFFICES ASSUME DumpInit PROVE DumpInv
    OBVIOUS
  <2>1. file \in Consistent
    BY InitInv, SnapshotConsistent DEF DumpInit
  <2> QED BY <2>1 DEF DumpInit, DumpInv, RequestKept
<1>2. DumpSpec => []IInv
  BY DumpKeepsHandshake, Inductive, PTL
<1> QED BY <1>1, <1>2, DumpNextInv, PTL DEF DumpSpec

\* Wherever write_dump fails or the process dies, the dump file is not half written, and
\* the tokens in it are those of switches in it.
THEOREM DumpWholeHolds == DumpSpec => []DumpWhole
<1>1. DumpInv => DumpWhole
  BY FileContentAssumption DEF DumpInv, Consistent, DumpWhole
<1> QED BY <1>1, DumpInductive, PTL

\* A SIGUSR1 that comes at any point of the loop or of a dump is served or still flagged.
THEOREM RequestKeptHolds == DumpSpec => []RequestKept
<1>1. DumpInv => RequestKept
  BY DEF DumpInv
<1> QED BY <1>1, DumpInductive, PTL
=============================================================================
