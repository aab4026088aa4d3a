------------------------------ MODULE CodecTools ------------------------------
(***************************************************************************)
(* The readers of binary keys and certificates: utils/sshKey.ts (length-    *)
(* prefixed fields, key sizes, a line of authorized_keys) and certDecoder.ts *)
(* (DER nodes, and which child of a certificate is which).  A buffer is a   *)
(* sequence of bytes; offsets count from 1.                                 *)
(***************************************************************************)
EXTENDS Outcomes, Integers, Sequences, FiniteSets, SequencesExt

CONSTANTS LengthBytes,   \* bytes of a field's length in a key blob (4)
          WeakBits,      \* an RSA key below it is refused (2048)
          AdvisedBits    \* an RSA key below it works, but could be stronger (3072)

ASSUME CodecAssumption ==
  LengthBytes \in Nat \ {0} /\ WeakBits \in Nat /\ AdvisedBits \in Nat /\ WeakBits <= AdvisedBits

Number(bytes) ==
  LET upTo[i \in 0..Len(bytes)] == IF i = 0 THEN 0 ELSE upTo[i - 1] * 256 + bytes[i] IN upTo[Len(bytes)]
Unknown == -1           \* no key size was read

-----------------------------------------------------------------------------
(* SSH key blobs *)

\* The fields one after the other: a length that runs past the end spoils the
\* blob (Spoilt is the last field then), a rest too short for a length is ignored.
Spoilt == <<-1>>
readFields(blob) ==
  LET field(at, n) == IF n > Len(blob) + 1 - at THEN Spoilt ELSE SubSeq(blob, at, at + n - 1)
      from[o \in 1..(Len(blob) + 1)] ==
        LET at == o + LengthBytes IN
          IF at > Len(blob) + 1 THEN <<>>
          ELSE LET f == field(at, Number(SubSeq(blob, o, at - 1)))
               IN <<f>> \o (IF f = Spoilt THEN <<>> ELSE from[at + Len(f)])
      Checked(f) == IF \E i \in DOMAIN f : f[i] = Spoilt THEN Failed ELSE Ok(f)
  IN Checked(from[1])

BitLength(b) == CHOOSE k \in 0..8 : b < 2^k /\ (k = 0 \/ b >= 2^(k - 1))

\* The size of a number, without the zero bytes that pad it.
mpintBits(field) ==
  LET set == {i \in DOMAIN field : field[i] # 0}
      i == CHOOSE j \in set : \A k \in set : j <= k
  IN IF set = {} THEN 0 ELSE (Len(field) - i) * 8 + BitLength(field[i])

analyzeStrength(type, bits) ==
  [warnings |-> (IF type = "ssh-dss" THEN {"disabled"} ELSE {})
                \cup (IF type = "ssh-rsa" /\ bits # Unknown /\ bits < WeakBits THEN {"weak"} ELSE {}),
   advisories |-> IF type = "ssh-rsa" /\ bits >= WeakBits /\ bits < AdvisedBits THEN {"short"} ELSE {}]

\* A line: what it declares, and the blob whose first field names the type the
\* data has.  Names stands for the decoding of that first field.
FieldBits(type, f) ==
  CASE type = "ssh-rsa" /\ Len(f) >= 3 -> mpintBits(f[3])
    [] type = "ssh-dss" /\ Len(f) >= 2 -> mpintBits(f[2])
    [] type = "ssh-ed25519" -> 256
    [] OTHER -> Unknown

KeyInfo(declared, type, bits) ==
  LET s == analyzeStrength(type, bits)
  IN Ok([type |-> type, bits |-> bits,
           strength |-> [s EXCEPT !.warnings = @ \cup (IF type # declared THEN {"mismatch"} ELSE {})]])

parseLine(l, Names) ==
  IF l.type = "unknown" \/ l.blob = <<>> THEN Failed
  ELSE Then(readFields(l.blob), LAMBDA f :
         IF f = <<>> THEN Failed
         ELSE IF f[1] \notin DOMAIN Names THEN Failed
         ELSE KeyInfo(l.type, Names[f[1]], FieldBits(Names[f[1]], f)))

\* Blank lines and comments are left out, a private key refuses everything, and
\* it is an error when no line holds a key.
inspectSshKeys(lines, Names) ==
  LET keyLines == SelectSeq(lines, LAMBDA l : l.type \notin {"comment", "private"})
      Inspected(keys) == [ok |-> \E i \in DOMAIN keys : keys[i].ok, keys |-> keys, refused |-> FALSE]
  IN IF \E i \in DOMAIN lines : lines[i].type = "private" THEN [ok |-> FALSE, keys |-> <<>>, refused |-> TRUE]
     ELSE Inspected([i \in DOMAIN keyLines |-> parseLine(keyLines[i], Names)])

-----------------------------------------------------------------------------
(* DER *)

\* A node at an offset: its tag, and where its content starts and ends (the
\* first offset after it).  Long lengths say of how many bytes they are.  The
\* code does arithmetic on missing length bytes, and the node it gets is empty
\* and ends the walk; content that runs past the buffer is refused.
Node(buf, tag, start, len) ==
  IF start > Len(buf) + 1 THEN Ok([tag |-> tag, start |-> Len(buf) + 1, end |-> Len(buf) + 1])
  ELSE IF start + len - 1 > Len(buf) THEN Failed
  ELSE Ok([tag |-> tag, start |-> start, end |-> start + len])

readTLV(buf, o) ==
  LET first == IF o < Len(buf) THEN buf[o + 1] ELSE 255
  IN IF first = 128 THEN Failed
     ELSE IF first < 128 THEN Node(buf, buf[o], o + 2, first)
     ELSE Node(buf, buf[o], o + first - 126, Number(SubSeq(buf, o + 2, o + first - 127)))

\* The nodes inside a node, one after the other until its end is reached.
children(buf, node) ==
  LET from[o \in 1..(Len(buf) + 1)] ==
        IF o >= node.end THEN <<>>
        ELSE LET n == readTLV(buf, o) IN <<n>> \o (IF n.ok THEN from[n.value.end] ELSE <<>>)
      Checked(c) == IF \E i \in DOMAIN c : ~c[i].ok THEN Failed ELSE Ok([i \in DOMAIN c |-> c[i].value])
  IN Checked(from[node.start])

\* An INTEGER's size: one zero byte of padding is not part of it.
readBitLength(bytes) ==
  LET b == IF Len(bytes) > 1 /\ bytes[1] = 0 THEN Tail(bytes) ELSE bytes
  IN IF b = <<>> THEN 0 ELSE (Len(b) - 1) * 8 + BitLength(b[1])

\* Whether the certificate's parts are there: the outer sequence holds the
\* body, and the body, after an optional version, six parts at least.
CertificateParts(p, skip, ExtensionTag) ==
  IF Len(p) < skip + 6 THEN Failed
  ELSE Ok([serial |-> p[skip + 1], issuer |-> p[skip + 3], validity |-> p[skip + 4],
             subject |-> p[skip + 5], key |-> p[skip + 6],
             extensions |-> SelectSeq(SubSeq(p, skip + 7, Len(p)), LAMBDA n : n.tag = ExtensionTag)])

decodeDer(der, VersionTag) ==
  Then(readTLV(der, 1), LAMBDA certificate :
    Then(children(der, certificate), LAMBDA top :
      IF Len(top) < 2 THEN Failed
      ELSE Then(children(der, top[1]), LAMBDA p :
             IF p = <<>> THEN Failed
             ELSE CertificateParts(p, IF p[1].tag = VersionTag THEN 1 ELSE 0, VersionTag + 3))))

\* Expired as of now, and the days that are left (rounded), of an end in
\* half days.
daysRemaining(notAfter, now) == (notAfter - now + 1) \div 2
isExpired(notAfter, now) == notAfter < now
=============================================================================
