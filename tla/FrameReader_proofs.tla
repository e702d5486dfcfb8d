-------------------------- MODULE FrameReader_proofs --------------------------
(***************************************************************************)
(* Theorems about FrameReader, for every length of json and binary, every  *)
(* cut and every fault.                                                    *)
(***************************************************************************)
EXTENDS FrameReader, SequenceTheorems, TLAPS

Parts == {"meta", "colon", "json", "binary"}
Byte == Parts \X Nat

\* Where the bytes of two sequences are in their concatenation.
LEMMA ConcatAt ==
  ASSUME NEW S, NEW s \in Seq(S), NEW t \in Seq(S)
  PROVE  /\ s \o t \in Seq(S)
         /\ Len(s) \in Nat /\ Len(t) \in Nat /\ Len(s \o t) = Len(s) + Len(t)
         /\ \A k \in 1 .. Len(s) : (s \o t)[k] = s[k]
         /\ \A k \in 1 .. Len(t) : (s \o t)[Len(s) + k] = t[k]
<1>1. s \o t \in Seq(S) /\ Len(s \o t) = Len(s) + Len(t)
  BY ConcatProperties
<1>2. \A i \in 1 .. Len(s) + Len(t) :
        (s \o t)[i] = IF i <= Len(s) THEN s[i] ELSE t[i - Len(s)]
  BY ConcatProperties
<1>3. Len(s) \in Nat /\ Len(t) \in Nat
  BY LenProperties
<1>4. ASSUME NEW k \in 1 .. Len(s) PROVE (s \o t)[k] = s[k]
  BY <1>2, <1>3
<1>5. ASSUME NEW k \in 1 .. Len(t) PROVE (s \o t)[Len(s) + k] = t[k]
  <2>1. /\ Len(s) + k \in 1 .. Len(s) + Len(t)
        /\ ~ (Len(s) + k <= Len(s)) /\ (Len(s) + k) - Len(s) = k
    BY <1>3
  <2> QED
    BY <1>2, <2>1
<1> QED
  BY <1>1, <1>3, <1>4, <1>5

\* A part of a frame is a sequence of its bytes.
LEMMA BytesType ==
  ASSUME NEW part \in Parts, NEW n \in Nat
  PROVE  /\ Bytes(part, n) \in Seq(Byte)
         /\ Len(Bytes(part, n)) = n
         /\ \A k \in 1 .. n : Bytes(part, n)[k] = <<part, k>>
<1>1. Bytes(part, n) \in [1 .. n -> Byte]
  BY DEF Bytes, Byte
<1>2. Bytes(part, n) \in Seq(Byte)
  BY <1>1, SeqDef
<1>3. Len(Bytes(part, n)) = n
  BY <1>1, <1>2, LenProperties DEF Bytes
<1> QED
  BY <1>2, <1>3 DEF Bytes

\* The start of a frame: the lengths, and the colon if it has one.
LEMMA HeadType ==
  ASSUME NEW f \in Frames,
         NEW h, h = Bytes("meta", 1)
                      \o (IF f.fault = "no_colon" THEN <<>> ELSE <<Colon>>)
  PROVE  /\ h \in Seq(Byte) /\ h[1] = <<"meta", 1>>
         /\ f.fault = "no_colon" => Len(h) = 1
         /\ f.fault # "no_colon" => Len(h) = 2 /\ h[2] = Colon
<1> DEFINE meta == Bytes("meta", 1)
<1>1. 1 \in Nat /\ "meta" \in Parts
  BY DEF Parts
<1>2. /\ meta \in Seq(Byte) /\ Len(meta) = 1
      /\ \A k \in 1 .. 1 : meta[k] = <<"meta", k>>
  BY <1>1, BytesType
<1>3. Colon \in Byte
  BY DEF Byte, Parts, Colon
<1> HIDE DEF meta
<1>4. CASE f.fault = "no_colon"
  <2>1. h = meta
    BY <1>2, <1>4, ConcatEmptySeq DEF meta
  <2> QED
    BY <1>2, <1>4, <2>1
<1>5. CASE f.fault # "no_colon"
  <2>1. h = meta \o <<Colon>>
    BY <1>5 DEF meta
  <2>2. PICK c : c = <<Colon>>
    OBVIOUS
  <2>3. c \in Seq(Byte) /\ Len(c) = 1 /\ c[1] = Colon
    BY <1>3, <2>2
  <2>4. /\ meta \o c \in Seq(Byte) /\ Len(meta \o c) = Len(meta) + Len(c)
        /\ \A k \in 1 .. Len(meta) : (meta \o c)[k] = meta[k]
        /\ \A k \in 1 .. Len(c) : (meta \o c)[Len(meta) + k] = c[k]
    <3>1. meta \in Seq(Byte) /\ c \in Seq(Byte)
      BY <1>2, <2>3
    <3> QED
      BY <3>1, ConcatAt
  <2>5. 1 \in 1 .. Len(meta) /\ 1 \in 1 .. Len(c) /\ Len(meta) + 1 = 2
    BY <1>2, <2>3
  <2>6. h = meta \o c
    BY <2>1, <2>2
  <2> QED
    BY <1>2, <1>5, <2>3, <2>4, <2>5, <2>6
<1> QED
  BY <1>4, <1>5

\* What is where in a frame.
LEMMA EncodeType ==
  ASSUME NEW f \in Frames
  PROVE  /\ f.json \in Nat /\ f.binary \in Nat /\ (f.fault = "none" => f.json > 0)
         /\ Encode(f) \in Seq(Byte) /\ Len(Encode(f)) \in Nat
         /\ f.fault = "no_colon" =>
              \A k \in 1 .. Len(Encode(f)) : Encode(f)[k] # Colon
         /\ f.fault # "no_colon" =>
              /\ Len(Encode(f)) = 2 + f.json + f.binary
              /\ \A k \in 1 .. Len(Encode(f)) : (Encode(f)[k] = Colon) <=> (k = 2)
              /\ \A k \in 1 .. f.json : Encode(f)[2 + k] = <<"json", k>>
              /\ \A k \in 1 .. f.binary :
                   Encode(f)[2 + f.json + k] = <<"binary", k>>
<1>1. f.json \in Nat /\ f.binary \in Nat /\ (f.fault = "none" => f.json > 0)
  BY SizesAssumption DEF Frames
<1> DEFINE hh == Bytes("meta", 1)
                      \o (IF f.fault = "no_colon" THEN <<>> ELSE <<Colon>>)
           jj == Bytes("json", f.json)
           nn == Bytes("binary", f.binary)
<1>2. PICK h, json, binary : h = hh /\ json = jj /\ binary = nn
  OBVIOUS
<1>3. /\ h \in Seq(Byte) /\ h[1] = <<"meta", 1>>
      /\ f.fault = "no_colon" => Len(h) = 1
      /\ f.fault # "no_colon" => Len(h) = 2 /\ h[2] = Colon
  BY <1>2, HeadType
<1>4. /\ json \in Seq(Byte) /\ Len(json) = f.json
      /\ \A k \in 1 .. f.json : json[k] = <<"json", k>>
  BY <1>1, <1>2, BytesType DEF Parts
<1>5. /\ binary \in Seq(Byte) /\ Len(binary) = f.binary
      /\ \A k \in 1 .. f.binary : binary[k] = <<"binary", k>>
  BY <1>1, <1>2, BytesType DEF Parts
<1>6. PICK b : b = h \o json
  OBVIOUS
<1>7. /\ b \in Seq(Byte) /\ Len(h) \in Nat /\ Len(b) = Len(h) + f.json
      /\ \A k \in 1 .. Len(h) : b[k] = h[k]
      /\ \A k \in 1 .. f.json : b[Len(h) + k] = json[k]
  <2>1. /\ b \in Seq(Byte) /\ Len(h) \in Nat /\ Len(b) = Len(h) + Len(json)
        /\ \A k \in 1 .. Len(h) : b[k] = h[k]
        /\ \A k \in 1 .. Len(json) : b[Len(h) + k] = json[k]
    BY <1>3, <1>4, <1>6, ConcatAt
  <2> QED
    BY <1>4, <2>1
<1>8. PICK e : e = b \o binary
  OBVIOUS
<1>9. /\ e \in Seq(Byte) /\ Len(b) \in Nat /\ Len(e) = Len(b) + f.binary
      /\ \A k \in 1 .. Len(b) : e[k] = b[k]
      /\ \A k \in 1 .. f.binary : e[Len(b) + k] = binary[k]
  <2>1. /\ e \in Seq(Byte) /\ Len(b) \in Nat /\ Len(e) = Len(b) + Len(binary)
        /\ \A k \in 1 .. Len(b) : e[k] = b[k]
        /\ \A k \in 1 .. Len(binary) : e[Len(b) + k] = binary[k]
    <3>1. b \in Seq(Byte) /\ binary \in Seq(Byte)
      BY <1>5, <1>7
    <3> QED
      BY <1>8, <3>1, ConcatAt
  <2> QED
    BY <1>5, <2>1
<1>10. Encode(f) = e
  BY <1>2, <1>6, <1>8 DEF Encode
<1> HIDE DEF hh, jj, nn
<1>11. /\ e[1] = <<"meta", 1>>
       /\ f.fault # "no_colon" => e[2] = Colon
       /\ \A k \in 1 .. f.json : e[Len(h) + k] = <<"json", k>>
       /\ \A k \in 1 .. f.binary : e[Len(h) + f.json + k] = <<"binary", k>>
  <2>1. 1 \in 1 .. Len(h) /\ 1 \in 1 .. Len(b)
    BY <1>1, <1>3, <1>7
  <2>2. f.fault # "no_colon" => 2 \in 1 .. Len(h) /\ 2 \in 1 .. Len(b)
    BY <1>1, <1>3, <1>7
  <2>3. \A k \in 1 .. f.json : Len(h) + k \in 1 .. Len(b)
    BY <1>1, <1>7
  <2>4. e[1] = h[1] /\ (f.fault # "no_colon" => e[2] = h[2])
    BY <1>7, <1>9, <2>1, <2>2
  <2>5. \A k \in 1 .. f.json : e[Len(h) + k] = <<"json", k>>
    BY <1>4, <1>7, <1>9, <2>3
  <2>6. \A k \in 1 .. f.binary : e[Len(h) + f.json + k] = <<"binary", k>>
    BY <1>5, <1>7, <1>9
  <2> QED
    BY <1>3, <2>4, <2>5, <2>6
<1>12. /\ \A k : <<"json", k>> # Colon
       /\ \A k : <<"binary", k>> # Colon
       /\ \A k : <<"meta", k>> # Colon
  BY DEF Colon
<1>13. ASSUME NEW k \in 1 .. Len(e), e[k] = Colon
       PROVE  f.fault # "no_colon" /\ k = 2
  <2>1. Len(e) = Len(h) + f.json + f.binary /\ k \in Nat /\ k >= 1
    BY <1>1, <1>7, <1>9
  <2>2. CASE k <= Len(h)
    <3>1. k = 1 \/ (k = 2 /\ f.fault # "no_colon")
      <4>1. CASE f.fault = "no_colon"
        <5>1. Len(h) = 1
          BY <1>3, <4>1
        <5> QED
          BY <2>1, <2>2, <5>1
      <4>2. CASE f.fault # "no_colon"
        <5>1. Len(h) = 2
          BY <1>3, <4>2
        <5> QED
          BY <2>1, <2>2, <4>2, <5>1
      <4> QED
        BY <4>1, <4>2
    <3> QED
      BY <1>11, <1>12, <1>13, <3>1
  <2>3. CASE k > Len(h) /\ k <= Len(h) + f.json
    <3>1. k - Len(h) \in 1 .. f.json /\ Len(h) + (k - Len(h)) = k
      BY <1>1, <1>7, <2>1, <2>3
    <3>2. e[Len(h) + (k - Len(h))] = <<"json", k - Len(h)>>
      BY <1>11, <3>1
    <3> QED
      BY <1>12, <1>13, <3>1, <3>2
  <2>4. CASE k > Len(h) + f.json
    <3>1. PICK n : n = Len(h) + f.json
      OBVIOUS
    <3>2. n \in Nat /\ k > n /\ k <= n + f.binary
      BY <1>1, <1>7, <2>1, <2>4, <3>1
    <3>3. k - n \in 1 .. f.binary /\ n + (k - n) = k
      BY <1>1, <2>1, <3>2
    <3>4. e[n + (k - n)] = <<"binary", k - n>>
      BY <1>11, <3>1, <3>3
    <3> QED
      BY <1>12, <1>13, <3>3, <3>4
  <2> QED
    BY <1>1, <1>7, <2>1, <2>2, <2>3, <2>4
<1>14. ASSUME f.fault # "no_colon"
       PROVE  /\ Len(e) = 2 + f.json + f.binary
              /\ \A k \in 1 .. f.json : e[2 + k] = <<"json", k>>
              /\ \A k \in 1 .. f.binary : e[2 + f.json + k] = <<"binary", k>>
  <2>1. Len(h) = 2
    BY <1>3, <1>14
  <2> QED
    BY <1>1, <1>7, <1>9, <1>11, <2>1
<1>15. ASSUME f.fault # "no_colon"
       PROVE  \A k \in 1 .. Len(e) : (e[k] = Colon) <=> (k = 2)
  BY <1>11, <1>13, <1>15
<1>16. Len(e) \in Nat
  BY <1>9, LenProperties
<1> QED
  BY <1>1, <1>9, <1>10, <1>13, <1>14, <1>15, <1>16

\* A piece of a sequence of bytes.
LEMMA PieceType ==
  ASSUME NEW s \in Seq(Byte), NEW m \in Nat, NEW n \in Nat,
         m <= n, n <= Len(s)
  PROVE  /\ SubSeq(s, m + 1, n) \in Seq(Byte)
         /\ Len(SubSeq(s, m + 1, n)) = n - m
         /\ \A k \in 1 .. n - m : SubSeq(s, m + 1, n)[k] = s[m + k]
<1>1. \A i \in m + 1 .. n : s[i] \in Byte
  BY LenProperties, ElementOfSeq
<1>2. m + 1 \in Int /\ n \in Int
  OBVIOUS
<1>3. PICK t : t = SubSeq(s, m + 1, n)
  OBVIOUS
<1>4. /\ t \in Seq(Byte)
      /\ Len(t) = IF m + 1 <= n THEN n - (m + 1) + 1 ELSE 0
      /\ \A i \in 1 .. n - (m + 1) + 1 : t[i] = s[(m + 1) + i - 1]
  BY <1>1, <1>2, <1>3, SubSeqProperties
<1>5. Len(t) = n - m
  BY <1>4
<1>6. ASSUME NEW k \in 1 .. n - m PROVE t[k] = s[m + k]
  <2>1. k \in 1 .. n - (m + 1) + 1 /\ (m + 1) + k - 1 = m + k
    OBVIOUS
  <2> QED
    BY <1>4, <2>1
<1> QED
  BY <1>3, <1>4, <1>5, <1>6

\* A piece that has the bytes of a part is that part.
LEMMA PieceIsPart ==
  ASSUME NEW s \in Seq(Byte), NEW part \in Parts, NEW n \in Nat,
         Len(s) = n, \A k \in 1 .. n : s[k] = <<part, k>>
  PROVE  s = Bytes(part, n)
<1>1. PICK b : b = Bytes(part, n)
  OBVIOUS
<1>2. b \in Seq(Byte) /\ Len(b) = n /\ \A k \in 1 .. n : b[k] = <<part, k>>
  BY <1>1, BytesType
<1>3. s = b
  BY <1>2, SeqEqual
<1> QED
  BY <1>1, <1>3

\* The reader after add().
Filled == [New EXCEPT !.buff = SubSeq(Encode(frame), 1, size)]

\* The reader after the lengths, with this in its buffer.
Measured(t) == [New EXCEPT !.buff = t, !.has_meta = TRUE,
                           !.json_length = frame.json,
                           !.binary_length = frame.binary]

\* What a verdict has to be for the two properties to hold.
Sound(done) ==
  /\ done[2] \in {"none", "some", "error"}
  /\ frame.fault = "none" /\ Whole =>
       done[2] = "some" /\ done[1].ctx = "read" /\ done[1].binary = Payload
  /\ done[2] = "some" /\ done[1].ctx = "read" =>
       frame.fault = "none" /\ Whole /\ done[1].binary = Payload

\* The lengths are read as soon as the colon is there, which it is in the
\* second place; without it there is no verdict to act on.
LEMMA MetaIsFirst ==
  ASSUME frame \in Frames, size \in 0 .. Len(Encode(frame))
  PROVE  \/ /\ ReadMeta(Filled)[2] \in {"none", "error"}
            /\ ~ (frame.fault = "none" /\ Whole)
         \/ \E t \in Seq(Byte) :
              /\ frame.fault \notin {"no_colon", "bad_meta"}
              /\ size >= 2 /\ Len(t) = size - 2
              /\ \A k \in 1 .. size - 2 : t[k] = Encode(frame)[2 + k]
              /\ ReadMeta(Filled) = <<Measured(t), "more">>
<1>1. PICK e : e = Encode(frame)
  OBVIOUS
<1>2. /\ frame.json \in Nat /\ frame.binary \in Nat
      /\ e \in Seq(Byte) /\ Len(e) \in Nat
      /\ frame.fault = "no_colon" => \A k \in 1 .. Len(e) : e[k] # Colon
      /\ frame.fault # "no_colon" =>
           /\ Len(e) = 2 + frame.json + frame.binary
           /\ \A k \in 1 .. Len(e) : (e[k] = Colon) <=> (k = 2)
  BY <1>1, EncodeType
<1>3. size \in Nat /\ size <= Len(e)
  BY <1>1, <1>2
<1>4. PICK b : b = SubSeq(e, 1, size)
  OBVIOUS
<1>5. /\ b \in Seq(Byte) /\ Len(b) = size
      /\ \A k \in 1 .. size : b[k] = e[k]
  <2>1. /\ SubSeq(e, 0 + 1, size) \in Seq(Byte)
        /\ Len(SubSeq(e, 0 + 1, size)) = size - 0
        /\ \A k \in 1 .. size - 0 : SubSeq(e, 0 + 1, size)[k] = e[0 + k]
    BY <1>2, <1>3, PieceType
  <2>2. 0 + 1 = 1 /\ size - 0 = size /\ \A k \in 1 .. size : 0 + k = k
    BY <1>3
  <2> QED
    BY <1>4, <2>1, <2>2
<1>6. Filled.buff = b
  BY <1>1, <1>4 DEF Filled, New
<1>7. CASE ~ Contains(b, Colon)
  <2>1. ReadMeta(Filled)[2] \in {"none", "error"}
    BY <1>6, <1>7 DEF ReadMeta, Fails, Says
  <2>2. ASSUME frame.fault = "none", Whole PROVE FALSE
    <3>1. 2 \in 1 .. Len(e) /\ size = Len(e)
      BY <1>1, <1>2, <2>2 DEF Whole
    <3>2. b[2] = Colon /\ 2 \in 1 .. Len(b)
      BY <1>2, <1>5, <2>2, <3>1
    <3> QED
      BY <1>7, <3>2 DEF Contains
  <2> QED
    BY <2>1, <2>2
<1>8. CASE Contains(b, Colon)
  <2>1. PICK k \in 1 .. size : e[k] = Colon
    BY <1>5, <1>8 DEF Contains
  <2>2. frame.fault # "no_colon" /\ size >= 2
    <3>1. k \in 1 .. Len(e)
      BY <1>2, <1>3
    <3>2. frame.fault # "no_colon" /\ k = 2
      BY <1>2, <2>1, <3>1
    <3> QED
      BY <1>3, <3>2
  <2>3. (CHOOSE i \in 1 .. Len(b) : b[i] = Colon) = 2
    <3>1. \A i \in 1 .. Len(b) : (b[i] = Colon) <=> (i = 2)
      <4> SUFFICES ASSUME NEW i \in 1 .. Len(b) PROVE (b[i] = Colon) <=> (i = 2)
        OBVIOUS
      <4>1. i \in 1 .. size /\ i \in 1 .. Len(e)
        BY <1>2, <1>3, <1>5
      <4> QED
        BY <1>2, <1>5, <2>2, <4>1
    <3>2. 2 \in 1 .. Len(b)
      BY <1>3, <1>5, <2>2
    <3> QED
      BY <3>1, <3>2
  <2>4. PICK t : t = SubSeq(b, 2 + 1, size)
    OBVIOUS
  <2>5. /\ t \in Seq(Byte) /\ Len(t) = size - 2
        /\ \A i \in 1 .. size - 2 : t[i] = b[2 + i]
    BY <1>3, <1>5, <2>2, <2>4, PieceType
  <2>6. \A i \in 1 .. size - 2 : t[i] = e[2 + i]
    <3>1. \A i \in 1 .. size - 2 : 2 + i \in 1 .. size
      BY <1>3
    <3> QED
      BY <1>5, <2>5, <3>1
  <2>7. CASE frame.fault = "bad_meta"
    <3>1. ReadMeta(Filled)[2] = "error"
      BY <1>6, <1>8, <2>7 DEF ReadMeta, Fails, Says
    <3> QED
      BY <2>7, <3>1
  <2>8. CASE frame.fault # "bad_meta"
    <3>1. ReadMeta(Filled) =
            <<[Filled EXCEPT !.has_meta = TRUE, !.buff = DrainMeta(Filled, 2),
                             !.json_length = frame.json,
                             !.binary_length = frame.binary], "more">>
      BY <1>6, <1>8, <2>3, <2>8 DEF ReadMeta, Says
    <3>2. DrainMeta(Filled, 2) = t
      BY <1>5, <1>6, <2>4 DEF DrainMeta, Drain
    <3>3. ReadMeta(Filled) = <<Measured(t), "more">>
      BY <3>1, <3>2 DEF Filled, Measured, New
    <3> QED
      BY <1>1, <2>2, <2>5, <2>6, <2>8, <3>3
  <2> QED
    BY <2>7, <2>8
<1> QED
  BY <1>7, <1>8

\* After the lengths, json and binary are read in full or nothing is said
\* under the fields of the json.
LEMMA BodyIsSound ==
  ASSUME frame \in Frames, size \in 0 .. Len(Encode(frame)),
         NEW t \in Seq(Byte),
         frame.fault \notin {"no_colon", "bad_meta"},
         size >= 2, Len(t) = size - 2,
         \A k \in 1 .. size - 2 : t[k] = Encode(frame)[2 + k],
         ReadMeta(Filled) = <<Measured(t), "more">>
  PROVE  Sound(ReadBody(Filled))
<1>1. PICK e, J, B : e = Encode(frame) /\ J = frame.json /\ B = frame.binary
  OBVIOUS
<1>2. /\ J \in Nat /\ B \in Nat /\ (frame.fault = "none" => J > 0)
      /\ Len(e) = 2 + J + B
      /\ \A k \in 1 .. J : e[2 + k] = <<"json", k>>
      /\ \A k \in 1 .. B : e[2 + J + k] = <<"binary", k>>
  BY <1>1, EncodeType
<1>3. /\ size \in Nat /\ size <= 2 + J + B
      /\ Whole <=> (size = 2 + J + B)
  BY <1>1, <1>2 DEF Whole
<1>4. PICK r, j : r = Measured(t) /\ j = ReadJson(r)
  OBVIOUS
<1>5. ReadBody(Filled) = IF j[2] = "more" THEN ReadBinary(j[1]) ELSE j
  BY <1>4 DEF ReadBody, Filled, New, Says
<1>6. /\ r.buff = t /\ r.json_length = J /\ r.binary_length = B
      /\ r.ctx = "default" /\ r.binary = <<>>
  BY <1>1, <1>4 DEF Measured, New
<1>7. CASE J = 0 \/ size - 2 < J
  <2>1. j = <<r, "more">>
    BY <1>4, <1>6, <1>7 DEF ReadJson, Says
  <2>2. /\ ReadBinary(r)[2] \in {"none", "some"}
        /\ ReadBinary(r)[1].ctx = "default"
    BY <1>4, <1>6 DEF ReadBinary, Says, Measured, New
  <2>3. ~ (frame.fault = "none" /\ Whole)
    BY <1>2, <1>3, <1>7
  <2> QED
    BY <1>5, <2>1, <2>2, <2>3 DEF Sound
<1>8. CASE J > 0 /\ size - 2 >= J
  <2>1. Take(r, J) = Bytes("json", frame.json)
    <3>1. PICK p : p = SubSeq(t, 0 + 1, J)
      OBVIOUS
    <3>2. /\ p \in Seq(Byte) /\ Len(p) = J - 0
          /\ \A k \in 1 .. J - 0 : p[k] = t[0 + k]
      BY <1>2, <1>3, <1>8, <3>1, PieceType
    <3>3. \A k \in 1 .. J : p[k] = <<"json", k>>
      <4> SUFFICES ASSUME NEW k \in 1 .. J PROVE p[k] = <<"json", k>>
        OBVIOUS
      <4>1. k \in 1 .. J - 0 /\ 0 + k = k /\ k \in 1 .. size - 2
        BY <1>2, <1>3, <1>8
      <4>2. p[k] = t[k] /\ t[k] = e[2 + k]
        BY <1>1, <3>2, <4>1
      <4> QED
        BY <1>2, <4>2
    <3>4. Len(p) = J /\ p = Take(r, J)
      BY <1>2, <1>6, <3>1, <3>2 DEF Take
    <3>5. "json" \in Parts
      BY DEF Parts
    <3> QED
      <4>1. p = Bytes("json", J)
        BY <1>2, <3>2, <3>3, <3>4, <3>5, PieceIsPart
      <4> QED
        BY <1>1, <3>4, <4>1
  <2>2. PICK u : u = SubSeq(t, J + 1, size - 2)
    OBVIOUS
  <2>3. /\ u \in Seq(Byte) /\ Len(u) = size - 2 - J
        /\ \A k \in 1 .. size - 2 - J : u[k] = t[J + k]
    BY <1>2, <1>3, <1>8, <2>2, PieceType
  <2>4. Drain(r, J) = u
    BY <1>6, <2>2 DEF Drain
  <2>5. ~ (r.json_length = 0 \/ Len(r.buff) < r.json_length)
    BY <1>2, <1>3, <1>6, <1>8
  <2>6. CASE frame.fault # "none"
    <3>1. frame.fault \in {"not_json", "missing_field"}
      BY <2>6 DEF Frames, Faults
    <3>2. j[2] = "error"
      BY <1>4, <1>6, <2>1, <2>5, <3>1 DEF ReadJson, Fails, Says
    <3> QED
      BY <1>5, <2>6, <3>2 DEF Sound
  <2>7. CASE frame.fault = "none" /\ B = 0
    <3>1. j[2] = "some" /\ j[1].ctx = "read" /\ j[1].binary = <<>>
      BY <1>4, <1>6, <2>1, <2>5, <2>7 DEF ReadJson, Says, Measured, New
    <3>2. Whole
      BY <1>2, <1>3, <1>8, <2>7
    <3>3. Payload = <<>>
      BY <1>1, <2>7 DEF Payload, Bytes
    <3> QED
      BY <1>5, <2>7, <3>1, <3>2, <3>3 DEF Sound
  <2>8. CASE frame.fault = "none" /\ B > 0
    <3>1. PICK read : read = [r EXCEPT !.ctx = "read", !.buff = u]
      OBVIOUS
    <3>2. j = <<read, "more">>
      BY <1>2, <1>4, <1>6, <2>1, <2>4, <2>5, <2>8, <3>1 DEF ReadJson, Says
    <3>3. read.ctx = "read" /\ read.buff = u /\ read.binary_length = B
      BY <1>1, <1>4, <3>1 DEF Measured, New
    <3>4. CASE size = 2 + J + B
      <4>1. PICK p : p = SubSeq(u, 0 + 1, B)
        OBVIOUS
      <4>2. /\ p \in Seq(Byte) /\ Len(p) = B - 0
            /\ \A k \in 1 .. B - 0 : p[k] = u[0 + k]
        BY <1>2, <2>3, <3>4, <4>1, PieceType
      <4>3. \A k \in 1 .. B : p[k] = <<"binary", k>>
        <5> SUFFICES ASSUME NEW k \in 1 .. B PROVE p[k] = <<"binary", k>>
          OBVIOUS
        <5>1. /\ k \in 1 .. B - 0 /\ 0 + k = k /\ k \in 1 .. size - 2 - J
              /\ J + k \in 1 .. size - 2 /\ 2 + (J + k) = 2 + J + k
          BY <1>2, <1>3, <3>4
        <5>2. p[k] = u[k] /\ u[k] = t[J + k]
          BY <2>3, <4>2, <5>1
        <5>3. t[J + k] = e[2 + (J + k)]
          BY <1>1, <5>1
        <5> QED
          BY <1>2, <5>1, <5>2, <5>3
      <4>4. "binary" \in Parts /\ Len(p) = B
        BY <1>2, <4>2 DEF Parts
      <4>5. p = Payload
        BY <1>1, <1>2, <4>2, <4>3, <4>4, PieceIsPart DEF Payload
      <4>6. Take(read, B) = p /\ Len(read.buff) >= B
        BY <1>2, <2>3, <3>3, <3>4, <4>1 DEF Take
      <4>7. ReadBinary(read)[2] = "some" /\ ReadBinary(read)[1].ctx = "read"
            /\ ReadBinary(read)[1].binary = p
        BY <1>2, <1>4, <2>8, <3>1, <3>3, <4>6 DEF ReadBinary, Says, Measured, New
      <4> QED
        BY <1>3, <1>5, <2>8, <3>2, <3>4, <4>5, <4>7 DEF Sound
    <3>5. CASE size # 2 + J + B
      <4>1. ~ (Len(read.buff) >= B)
        BY <1>2, <1>3, <2>3, <3>3, <3>5
      <4>2. ReadBinary(read)[2] = "none"
        BY <3>3, <4>1 DEF ReadBinary, Says
      <4> QED
        BY <1>3, <1>5, <3>2, <3>5, <4>2 DEF Sound
    <3> QED
      BY <3>4, <3>5
  <2> QED
    BY <1>2, <2>6, <2>7, <2>8
<1> QED
  BY <1>2, <1>3, <1>7, <1>8

-----------------------------------------------------------------------------

\* The reader is empty, then filled, then says what is sound.
ReaderInv ==
  /\ frame \in Frames /\ size \in 0 .. Len(Encode(frame))
  /\ result \in {"idle", "added", "none", "some", "error"}
  /\ result = "idle" => req = New
  /\ result = "added" => req = Filled
  /\ WholeIsRead /\ OnlyWholeIsActedOn

\* It holds of a reader that was just made.
LEMMA ReaderInit == Init => ReaderInv
  BY DEF Init, ReaderInv, WholeIsRead, OnlyWholeIsActedOn

\* Add keeps it.
LEMMA ReaderAdd == ReaderInv /\ Add => ReaderInv'
<1> SUFFICES ASSUME ReaderInv, Add PROVE ReaderInv'
  OBVIOUS
<1>1. /\ req = New /\ result' = "added" /\ frame' = frame /\ size' = size
      /\ req' = [req EXCEPT !.buff = @ \o SubSeq(Encode(frame), 1, size)]
  BY DEF ReaderInv, Add
<1>2. PICK b : b = SubSeq(Encode(frame), 1, size)
  OBVIOUS
<1>3. b \in Seq(Byte)
  <2>1. Encode(frame) \in Seq(Byte) /\ Len(Encode(frame)) \in Nat
    BY EncodeType DEF ReaderInv
  <2>2. /\ SubSeq(Encode(frame), 0 + 1, size) \in Seq(Byte) /\ 0 + 1 = 1
    BY <2>1, PieceType DEF ReaderInv
  <2> QED
    BY <1>2, <2>2
<1>4. <<>> \o b = b
  BY <1>3, ConcatEmptySeq
<1>5. Encode(frame)' = Encode(frame)
  BY <1>1 DEF Encode
<1>6. req' = Filled'
  BY <1>1, <1>2, <1>4, <1>5 DEF Filled, New
<1> QED
  BY <1>1, <1>5, <1>6 DEF ReaderInv, WholeIsRead, OnlyWholeIsActedOn

\* And so does read_block().
LEMMA ReaderReadBlock == ReaderInv /\ ReadBlock => ReaderInv'
<1> SUFFICES ASSUME ReaderInv, ReadBlock PROVE ReaderInv'
  OBVIOUS
<1>1. /\ frame \in Frames /\ size \in 0 .. Len(Encode(frame))
      /\ req = Filled /\ frame' = frame /\ size' = size
  BY DEF ReaderInv, ReadBlock
<1>2. PICK done : done = ReadBody(Filled)
  OBVIOUS
<1>3. req' = done[1] /\ result' = done[2]
  BY <1>1, <1>2 DEF ReadBlock, Filled, New
<1>4. Sound(done)
  <2>1. CASE /\ ReadMeta(Filled)[2] \in {"none", "error"}
             /\ ~ (frame.fault = "none" /\ Whole)
    <3>1. done = ReadMeta(Filled)
      BY <1>2, <2>1 DEF ReadBody, Filled, New, Says
    <3> QED
      BY <2>1, <3>1 DEF Sound
  <2>2. CASE \E t \in Seq(Byte) :
               /\ frame.fault \notin {"no_colon", "bad_meta"}
               /\ size >= 2 /\ Len(t) = size - 2
               /\ \A k \in 1 .. size - 2 : t[k] = Encode(frame)[2 + k]
               /\ ReadMeta(Filled) = <<Measured(t), "more">>
    BY <1>1, <1>2, <2>2, BodyIsSound
  <2> QED
    BY <1>1, <2>1, <2>2, MetaIsFirst
<1>5. Encode(frame)' = Encode(frame) /\ Whole' = Whole /\ Payload' = Payload
  BY <1>1 DEF Encode, Whole, Payload
<1> QED
  BY <1>1, <1>3, <1>4, <1>5 DEF ReaderInv, WholeIsRead, OnlyWholeIsActedOn, Sound

\* ReaderInv holds of every reader.
LEMMA ReaderAlways == Spec => []ReaderInv
<1>1. ReaderInv /\ UNCHANGED vars => ReaderInv'
  BY DEF ReaderInv, WholeIsRead, OnlyWholeIsActedOn, vars, Filled, Encode,
         Whole, Payload
<1>2. ReaderInv /\ [Next]_vars => ReaderInv'
  BY <1>1, ReaderAdd, ReaderReadBlock DEF Next
<1> QED
  BY <1>2, ReaderInit, PTL DEF Spec

\* read_block() takes the fields, the json and the binary of every frame that
\* arrived whole, whatever their lengths.
THEOREM WholeFramesAreRead == Spec => []WholeIsRead
<1>1. ReaderInv => WholeIsRead
  BY DEF ReaderInv
<1> QED
  BY <1>1, ReaderAlways, PTL

\* No cut and no fault makes read_block() give a frame under the fields of its
\* json, unless the frame is well-formed and has all its bytes.
THEOREM NothingElseIsActedOn == Spec => []OnlyWholeIsActedOn
<1>1. ReaderInv => OnlyWholeIsActedOn
  BY DEF ReaderInv
<1> QED
  BY <1>1, ReaderAlways, PTL
=============================================================================
