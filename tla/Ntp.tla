-------------------------------- MODULE Ntp ---------------------------------
(***************************************************************************)
(* NTP timestamps and replies (crates/rtfsn-core/src/sync/ntp.rs).  A      *)
(* timestamp carries no era: the client chooses the era nearest its own    *)
(* clock.  The numbers of the format are parameters: 10^9 ns and 2^32      *)
(* fractions make a second there, 2^32 s an era, and the Unix epoch lies   *)
(* in the middle of era 0.                                                 *)
(***************************************************************************)
EXTENDS Integers, FiniteSets, FiniteSetsExt

CONSTANTS
    NsPerSecond, Fractions,     \* 10^9, 2^32
    EraSeconds,                 \* ERA_S
    UnixToNtp,                  \* UNIX_TO_NTP_S
    MaxNs                       \* bound: the last instant

ASSUME NtpAssumption ==
    /\ NsPerSecond \in Nat \ {0} /\ Fractions \in Nat /\ Fractions % 2 = 0
    /\ Fractions >= 2 * NsPerSecond \* or a nanosecond could be lost in rounding
    /\ EraSeconds \in Nat \ {0} /\ UnixToNtp \in 0 .. EraSeconds - 1
    /\ MaxNs \in Nat

VARIABLES
    serverNs,   \* the server's clock when it stamps its reply
    nearNs      \* the client's clock

ntpVars == <<serverNs, nearNs>>

NtpInit == serverNs = 0 /\ nearNs = 0
NtpNext ==
    \/ serverNs < MaxNs /\ serverNs' = serverNs + 1 /\ UNCHANGED nearNs
    \/ nearNs < MaxNs /\ nearNs' = nearNs + 1 /\ UNCHANGED serverNs

NtpSpec == NtpInit /\ [][NtpNext]_ntpVars

(* Both halves of the 64 bits.                                             *)
to_ntp(ns) ==
    <<(ns \div NsPerSecond + UnixToNtp) % EraSeconds,
      ((ns % NsPerSecond) * Fractions) \div NsPerSecond>>

Distance(a, b) == IF a < b THEN b - a ELSE a - b
SaturatingSub(a, b) == IF a < b THEN 0 ELSE a - b

(* Faulty variant: the client's own era.                                   *)
SameEra(secs, near) == (near \div EraSeconds) * EraSeconds + secs

(* The first of the nearest, from the era before to the era after.         *)
ResolveEra(secs, near) ==
    LET era   == near \div EraSeconds
        tried == {e * EraSeconds + secs : e \in {SaturatingSub(era, 1), era, era + 1}}
    IN  Min({s \in tried : \A t \in tried : Distance(s, near) <= Distance(t, near)})

from_ntp(ts, near) ==
    LET frac_ns == (ts[2] * NsPerSecond + Fractions \div 2) \div Fractions
        best    == ResolveEra(ts[1], near \div NsPerSecond + UnixToNtp)
    IN  SaturatingSub(best, UnixToNtp) * NsPerSecond + frac_ns

Zero == <<0, 0>>

(* parse_reply: the checks in their order; the fields they look at.        *)
parse_reply(p, cookie, near) ==
    CASE p.mode # 4                             -> "NotServer"
      [] p.mode = 4 /\ p.origin # cookie        -> "WrongOrigin"
      [] p.mode = 4 /\ p.origin = cookie /\ p.stratum = 0 -> "KissOfDeath"
      [] p.mode = 4 /\ p.origin = cookie /\ p.stratum # 0
           /\ (p.leap = 3 \/ p.stratum >= 16)   -> "Unsynchronized"
      [] p.mode = 4 /\ p.origin = cookie /\ p.stratum \in 1 .. 15 /\ p.leap # 3
           /\ Zero \in {p.receive, p.transmit}  -> "ZeroTimestamp"
      [] OTHER -> <<from_ntp(p.receive, near), from_ntp(p.transmit, near)>>
-----------------------------------------------------------------------------
(* What a synchronised server answers to the request with this cookie.     *)
ServerReply(cookie) ==
    [mode |-> 4, origin |-> cookie, stratum |-> 2, leap |-> 0,
     receive |-> to_ntp(serverNs), transmit |-> to_ntp(serverNs)]

(* "any clock within 68 years resolves it": when the clocks are less than  *)
(* half an era apart, on whichever side of an era's boundary each of them  *)
(* is, the client reads the server's time exactly, to the nanosecond, from *)
(* the reply to its own request.  (At the one instant whose timestamp is   *)
(* zero it takes the reply for an unset one.)                              *)
EraResolved ==
    2 * Distance(serverNs \div NsPerSecond, nearNs \div NsPerSecond) < EraSeconds =>
        parse_reply(ServerReply("c1"), "c1", nearNs) =
            IF to_ntp(serverNs) = Zero THEN "ZeroTimestamp" ELSE <<serverNs, serverNs>>
=============================================================================
