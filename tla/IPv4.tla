-------------------------------- MODULE IPv4 --------------------------------
(***************************************************************************)
(* ipv4_parse (src/src/blackbox/ipv4.cpp).  A raw packet is the bytes      *)
(* there are (len) and the fields that parsing depends on; the addresses   *)
(* are copied as they are.                                                 *)
(***************************************************************************)
EXTENDS Naturals

CONSTANT Raw        \* the shapes of packets

UInt(bits) == 0 .. 2 ^ bits - 1
Shape == [len : Nat, version : UInt(4), ihl : UInt(4), total_length : UInt(16), ports : BOOLEAN]
ASSUME RawAssumption == Raw \subseteq Shape

HeaderBytes(r) == r.ihl * 4

HeaderFits_Unchecked(r) == r.len >= 20 /\ r.version = 4 /\ r.ihl >= 5   \* mutant of HeaderFits
HeaderFits(r) ==
    r.len >= 20 /\ r.version = 4 /\ r.ihl >= 5 /\ r.len >= HeaderBytes(r)
LengthFits(r) == r.total_length <= r.len
\* TCP and UDP have ports behind the header.
PortsFit(r) == r.ports => r.len >= HeaderBytes(r) + 4

ipv4_parse(r) == HeaderFits(r) /\ LengthFits(r) /\ PortsFit(r)

\* How many bytes from the start ipv4_parse has looked at when it returns.
BytesRead(r) ==
    CASE r.len < 20 -> 0
      [] r.len >= 20 /\ ~HeaderFits(r) -> 1
      [] HeaderFits(r) /\ ~LengthFits(r) -> 10
      [] HeaderFits(r) /\ LengthFits(r) /\ r.ports /\ PortsFit(r) -> HeaderBytes(r) + 4
      [] OTHER -> 20

(***************************************************************************)
(* Whatever a packet claims about itself, parsing stays inside its bytes,  *)
(* and one that is accepted has its header and its length inside them too. *)
(***************************************************************************)
StaysInside ==
    \A r \in Raw :
        /\ BytesRead(r) <= r.len
        /\ ipv4_parse(r) => HeaderBytes(r) <= r.len /\ r.total_length <= r.len
=============================================================================
