----------------------------- MODULE Whitelist -----------------------------
(***************************************************************************)
(* whitelist.conf: how ProfilerProcess reads it into the database, and     *)
(* which flows it makes ProfilerProcess ignore.                            *)
(*                                                                         *)
(* A line of the file and an entry of the database are one record, that    *)
(* of a line has commented besides.  The four dictionaries of the database *)
(* are one sequence, in the order in which their keys were added.          *)
(***************************************************************************)
EXTENDS Integers, Sequences, FiniteSets, SequencesExt

CONSTANTS
    Ip4, Ip6,         \* texts that are addresses
    Within,           \* <<x, y>>: the text x occurs in the text y
    EndsWith,         \* <<x, y>>: the text x is the end of the text y
    Sni, Resolved,    \* address -> its server names, and its DNS resolutions
    OrgRange,         \* organization -> addresses in its ranges
    OrgAsn,           \* organization -> addresses of its autonomous systems
    OrgDomain,        \* organization -> domains its name or one of its own
                      \* domains matches
    OrgInside         \* organization -> texts one of its own domains occurs in

Ip == Ip4 \cup Ip6

(* What the last two columns say; what is listed is none of these words.   *)
Word == {"src", "dst", "both", "flows", "alerts"}

Listed == [type : {"ip", "domain", "org", "mac"}, data : STRING \ Word,
           from : Word, what : Word, commented : BOOLEAN]

ASSUME WhitelistAssumption ==
    /\ EndsWith \subseteq Within
    /\ \A pair \in Within : pair[2] \notin Word
    /\ Ip4 \cap Ip6 = {} /\ "" \notin Ip
    /\ \A org \in DOMAIN OrgRange : OrgRange[org] \subseteq Ip

Entry(l) == [type |-> l.type, data |-> l.data, from |-> l.from, what |-> l.what]

-----------------------------------------------------------------------------
(* read_whitelist *)

SameKey(e, f) == e.type = f.type /\ e.data = f.data

Put(w, e) ==
    IF \E i \in DOMAIN w : SameKey(w[i], e)
    THEN [i \in DOMAIN w |-> IF SameKey(w[i], e) THEN e ELSE w[i]]
    ELSE Append(w, e)

(* x in line                                                               *)
InLine(x, l) ==
    \E y \in {l.data, l.from, l.what} : x = y \/ <<x, y>> \in Within

(* From each dictionary but that of the MAC addresses a comment removes    *)
(* the first entry whose three texts occur in it, whatever its own type.   *)
Named(e, l) == InLine(e.data, l) /\ InLine(e.from, l) /\ InLine(e.what, l)

PopNamed(w, l, type) ==
    LET i == SelectInSeq(w, LAMBDA e : e.type = type /\ Named(e, l))
    IN  IF i = 0 THEN w ELSE RemoveAt(w, i)

PopIps(w, l) == PopNamed(w, l, "ip")
Pop(w, l) == PopNamed(PopNamed(PopNamed(w, l, "ip"), l, "domain"), l, "org")

Valid(l) == l.type # "ip" \/ l.data \in Ip

ReadLineOf(w, l) ==
    IF l.commented THEN Pop(w, l) ELSE IF Valid(l) THEN Put(w, Entry(l)) ELSE w

(* The database keeps what an earlier version of the file said.            *)
ReadWhitelist(conf, w) == FoldLeft(ReadLineOf, w, conf)

-----------------------------------------------------------------------------
(* is_whitelisted_flow.  It answers "yes" or "no", or it raises: "error".  *)

IgnoresFlows(e) == e.what \in {"flows", "both"}
FromSrc(e) == e.from \in {"src", "both"}
ToDst(e) == e.from \in {"dst", "both"}

OfType(w, type) == SelectSeq(w, LAMBDA e : e.type = type)

(* get_domains_of_flow, of the source and of the destination               *)
Names(of, ip) == IF ip \in DOMAIN of THEN of[ip] ELSE {}
SrcDomains(f) == Names(Sni, f.saddr) \cup Names(Resolved, f.saddr)
DstDomains(f) == Names(Sni, f.daddr)

DomainListed(w, f) ==
    \E i \in DOMAIN w :
        /\ w[i].type = "domain" /\ IgnoresFlows(w[i])
        /\ \E d \in f.domains
                   \cup (IF FromSrc(w[i]) THEN SrcDomains(f) ELSE {})
                   \cup (IF ToDst(w[i]) THEN DstDomains(f) \cup Names(Resolved, f.daddr)
                         ELSE {}) :
              d = w[i].data \/ <<w[i].data, d>> \in EndsWith

IpListed(w, f) ==
    \E i \in DOMAIN w :
        /\ w[i].type = "ip" /\ IgnoresFlows(w[i])
        /\ \/ FromSrc(w[i]) /\ w[i].data = f.saddr
           \/ ToDst(w[i]) /\ w[i].data = f.daddr

(* One address, or the domains, against an organization.  The first range  *)
(* ends the search when the address is none.                               *)
OrgVerdictOf(org, ip, matches) ==
    IF OrgRange[org] # {} /\ ip \notin Ip THEN "no"
    ELSE IF matches \/ ip \in OrgRange[org] \cup OrgAsn[org] THEN "yes" ELSE "next"

(* The domains of an organization are read when a source is compared.  A   *)
(* destination is compared with those that were read last, which may be of *)
(* an organization before it, or of none: they are unbound.                *)
ReadsDomains(e) == IgnoresFlows(e) /\ FromSrc(e)

OrgVerdict(orgs, i, f) ==
    LET e == orgs[i]
        domains == (IF FromSrc(e) THEN SrcDomains(f) ELSE {})
                     \cup (IF ToDst(e) THEN DstDomains(f) ELSE {})
        read == {j \in 1 .. i : ReadsDomains(orgs[j])}
        inside == read # {} /\ domains \cap OrgInside[orgs[Max(read)].data] # {}
        src == IF FromSrc(e)
               THEN OrgVerdictOf(e.data, f.saddr, domains \cap OrgDomain[e.data] # {})
               ELSE "next"
        dst == OrgVerdictOf(e.data, f.daddr, inside)
    IN  IF ~ IgnoresFlows(e) THEN "next"
        ELSE IF src # "next" \/ ~ ToDst(e) THEN src
        ELSE IF dst = "next" /\ read = {} THEN "error" ELSE dst

(* The source MAC address of a flow that carries none is looked up: None   *)
(* cannot be indexed, and the first letter of a text is no MAC address.    *)
(* What to ignore is not asked.                                            *)
MacVerdict(w, f, macs) ==
    LET listed == OfType(w, "mac")
        known == f.src_mac # "" \/ f.saddr \in macs
    IN  IF listed = <<>> THEN "no"
        ELSE IF ~ known THEN "error"
        ELSE IF \E i \in DOMAIN listed :
                  \/ FromSrc(listed[i]) /\ listed[i].data = f.src_mac
                  \/ ToDst(listed[i]) /\ listed[i].data = f.dst_mac
             THEN "yes" ELSE "no"

Verdict(w, f, macs) ==
    LET orgs == OfType(w, "org")
        decided == {i \in DOMAIN orgs : OrgVerdict(orgs, i, f) # "next"}
    IN  IF DomainListed(w, f) \/ IpListed(w, f) THEN "yes"
        ELSE IF decided # {} THEN OrgVerdict(orgs, Min(decided), f)
        ELSE MacVerdict(w, f, macs)
=============================================================================
