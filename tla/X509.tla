---------------------------------- MODULE X509 ----------------------------------
(***************************************************************************)
(* What x509_crt_verify makes of a chain of certificates, a list of        *)
(* trusted ones, a list of CRLs and the name that was asked for.           *)
(*                                                                         *)
(* A certificate is a record: raw (it, as a whole), version, serial,       *)
(* subject and issuer (sequences of [oid, tag, val]), from and to, the     *)
(* extensions it has (ext_types) with their alt (names), usage (a set),    *)
(* ca, max_pathlen, pk, and tbs with the signature: sig_md, sig_pk,        *)
(* sig_opts, sig.  Strings are sequences of character codes, times         *)
(* <<year, .., second>>.  Vrfy is the caller's callback, which may change  *)
(* the flags of a certificate; one that ends the walk by an error of its   *)
(* own is left out.                                                        *)
(***************************************************************************)
EXTENDS Pk

CONSTANTS
  Md(_, _),        \* Md(md, tbs): the digest of the signed part
  UTF8, PRINTABLE, \* the tags of strings that case does not tell apart
  Vrfy(_, _, _),   \* Vrfy(raw, depth, flags): what f_vrfy makes of the flags
  CN               \* the oid of a common name

\* No name to look for.
ABSENT == <<-1>>
Star == 42
Dot == 46

-----------------------------------------------------------------------------
(* Times.                                                                  *)

\* Is there a first difference, and is before's the greater?
CheckTime(before, after) ==
  \E i \in 1..6 : before[i] > after[i] /\ \A j \in 1..(i - 1) : before[j] = after[j]
TimeExpired(now, to) == CheckTime(now, to)
TimeFuture(now, from) == CheckTime(from, now)

-----------------------------------------------------------------------------
(* Strings and names.                                                      *)

Letter(c) == c \in 65..90 \/ c \in 97..122
\* They differ in the bit of 32, and the first is a letter.
CaseBit(c, d) == (c - d = 32 /\ (c \div 32) % 2 = 1) \/ (d - c = 32 /\ (d \div 32) % 2 = 1)
MemCaseEq(s, t, n) == \A i \in 1..n : s[i] = t[i] \/ (CaseBit(s[i], t[i]) /\ Letter(s[i]))

\* *.rest stands for any one label in front of .rest, in all letters' cases.
Wildcard(cn, name) ==
  LET dots == {i \in 1..Len(cn) : cn[i] = Dot}
      first == CHOOSE i \in dots : \A j \in dots : i <= j
  IN /\ Len(name) >= 3 /\ name[1] = Star /\ name[2] = Dot
     /\ dots # {} /\ first > 1
     /\ Len(cn) - first + 1 = Len(name) - 1
     /\ MemCaseEq(Tail(name), SubSeq(cn, first, Len(cn)), Len(name) - 1)

NameMatches(cn, name) ==
  \/ Len(name) = Len(cn) /\ MemCaseEq(cn, name, Len(cn))
  \/ Wildcard(cn, name)
\* With alternative names the subject is not looked at.
CnMatches(crt, cn) ==
  IF "SUBJECT_ALT_NAME" \in crt.ext_types THEN \E i \in DOMAIN crt.alt : NameMatches(cn, crt.alt[i])
  ELSE \E i \in DOMAIN crt.subject : crt.subject[i].oid = CN /\ NameMatches(cn, crt.subject[i].val)

StringEq(a, b) ==
  \/ a.tag = b.tag /\ a.val = b.val
  \/ /\ {a.tag, b.tag} \subseteq {UTF8, PRINTABLE}
     /\ Len(a.val) = Len(b.val) /\ MemCaseEq(a.val, b.val, Len(a.val))
NameEq(a, b) ==
  /\ Len(a) = Len(b)
  /\ \A i \in DOMAIN a : a[i].oid = b[i].oid /\ StringEq(a[i], b[i])

-----------------------------------------------------------------------------
(* Usages and revocation.                                                  *)

CheckKeyUsage(crt, usage) == "KEY_USAGE" \notin crt.ext_types \/ usage \in crt.usage

\* An entry without a serial ends the list; one that is to come does not count yet.
Revoked(now, crt, crl) ==
  LET blanks == {i \in DOMAIN crl.entries : crl.entries[i].serial = <<>>}
      last == IF blanks = {} THEN Len(crl.entries)
              ELSE (CHOOSE i \in blanks : \A j \in blanks : i <= j) - 1
  IN \E i \in 1..last : /\ crl.entries[i].serial = crt.serial
                        /\ TimeExpired(now, crl.entries[i].date)

SignedBy(pk, made) ==
  /\ MdSize(made.sig_md) # 0
  /\ VerifyExt(made.sig_pk, made.sig_opts, pk, made.sig_md, Md(made.sig_md, made.tbs),
               MdSize(made.sig_md), made.sig) = OK

\* The CRLs of ca, up to the first that cannot be trusted or that revokes.
RECURSIVE VerifyCrl(_, _, _, _)
VerifyCrl(now, crt, ca, crls) ==
  IF crls = <<>> THEN {}
  ELSE LET crl == Head(crls)
           old == (IF TimeExpired(now, crl.next_update) THEN {"CRL_EXPIRED"} ELSE {})
                  \cup (IF TimeFuture(now, crl.this_update) THEN {"CRL_FUTURE"} ELSE {})
       IN IF crl.version = 0 \/ crl.issuer # ca.subject THEN VerifyCrl(now, crt, ca, Tail(crls))
          ELSE IF ~CheckKeyUsage(ca, "CRL_SIGN") \/ ~SignedBy(ca.pk, crl) THEN {"CRL_NOT_TRUSTED"}
          ELSE IF Revoked(now, crt, crl) THEN old \cup {"REVOKED"}
          ELSE old \cup VerifyCrl(now, crt, ca, Tail(crls))

-----------------------------------------------------------------------------
(* The chain.  v holds what stays the same in the walk: now, the trusted   *)
(* list and the CRLs.                                                      *)

Dates(now, crt) ==
  (IF TimeExpired(now, crt.to) THEN {"EXPIRED"} ELSE {})
  \cup (IF TimeFuture(now, crt.from) THEN {"FUTURE"} ELSE {})

CheckParent(child, parent, top, bottom) ==
  LET need_ca_bit == /\ ~(top /\ parent.version < 3)
                     /\ ~(top /\ bottom /\ child.raw = parent.raw)
  IN /\ NameEq(child.issuer, parent.subject)
     /\ need_ca_bit => parent.ca /\ CheckKeyUsage(parent, "KEY_CERT_SIGN")

\* The first of the trusted that has signed the top of the chain, or none.  What
\* is counted for one of the top's own name stays counted for those behind it.
RECURSIVE Trusted(_, _, _, _, _)
Trusted(v, child, cas, path_cnt, check_path_cnt) ==
  IF cas = <<>> THEN {}
  ELSE LET ca == Head(cas)
           fits == CheckParent(child, ca, TRUE, path_cnt = 0)
           cnt == IF fits /\ child.subject = ca.subject THEN check_path_cnt - 1 ELSE check_path_cnt
       IN IF fits /\ ~(ca.max_pathlen > 0 /\ ca.max_pathlen < cnt) /\ SignedBy(ca.pk, child)
          THEN {ca} ELSE Trusted(v, child, Tail(cas), path_cnt, cnt)

\* Mutant of VerifyTop: only the chain's own certificates may be too old.
VerifyTopDateless(v, child, path_cnt, flags) ==
  LET found == Trusted(v, child, v.trusted, path_cnt, path_cnt + 1)
      own == flags \cup Dates(v.now, child) \cup (IF found = {} THEN {"NOT_TRUSTED"} ELSE {})
      others == {ca \in found : ca.subject # child.subject}
      crl == UNION {VerifyCrl(v.now, child, ca, v.crls) : ca \in others}
  IN Vrfy(child.raw, path_cnt, own \cup crl)
VerifyTop(v, child, path_cnt, flags) ==
  LET cas == IF MdSize(child.sig_md) = 0 THEN <<>> ELSE v.trusted
      found == Trusted(v, child, cas, path_cnt, path_cnt + 1)
      own == flags \cup Dates(v.now, child) \cup (IF found = {} THEN {"NOT_TRUSTED"} ELSE {})
      others == {ca \in found : ca.subject # child.subject}
      crl == UNION {VerifyCrl(v.now, child, ca, v.crls) : ca \in others}
      ca_flags == UNION {Vrfy(ca.raw, path_cnt + 1, Dates(v.now, ca)) : ca \in others}
  IN Vrfy(child.raw, path_cnt, own \cup crl) \cup ca_flags

\* The first behind it in the chain that may be its parent.
Parents(chain, child, bottom) ==
  {i \in 2..Len(chain) : CheckParent(child, chain[i], FALSE, bottom)}
First(S) == CHOOSE i \in S : \A j \in S : i <= j

RECURSIVE VerifyFrom(_, _, _, _)
VerifyFrom(v, chain, path_cnt, flags) ==
  LET child == Head(chain)
      above == Parents(chain, child, path_cnt <= 1)
      rest == SubSeq(chain, First(above), Len(chain))
      parent == Head(rest)
      own == flags \cup Dates(v.now, child)
                   \cup (IF SignedBy(parent.pk, child) THEN {} ELSE {"NOT_TRUSTED"})
                   \cup VerifyCrl(v.now, child, parent, v.crls)
  IN IF above = {} THEN VerifyTop(v, child, path_cnt, flags)
     ELSE Vrfy(child.raw, path_cnt, own) \cup VerifyFrom(v, rest, path_cnt + 1, {})

\* x509_crt_verify: the flags; it answers 0 when there are none.
VerifyChain(v, chain, cn) ==
  LET named == IF cn = ABSENT \/ CnMatches(Head(chain), cn) THEN {} ELSE {"CN_MISMATCH"}
  IN VerifyFrom(v, chain, 0, named)
=============================================================================
