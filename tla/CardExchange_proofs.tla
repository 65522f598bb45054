-------------------------- MODULE CardExchange_proofs --------------------------
(***************************************************************************)
(* The streaming encoders over a sink that may fail, and the streaming card *)
(* parser, for any items, any lines, any buffer and any number of calls.   *)
(***************************************************************************)
EXTENDS CardExchange, SequenceLemmas, FiniteSetTheorems

-----------------------------------------------------------------------------
(* What the encoders write. *)

\* The lines an encoder may write.
WireLines ==
  PropertyLines
  \cup [name : {"BEGIN", "END", "VERSION", "PRODID", "UID", "KIND"},
        value : {"VCALENDAR", "2.0", Supported, NoValue, DefaultProdID}
                  \cup Items \cup ProdIDs \cup Uids \cup CardKinds,
        grouped : {FALSE}]

LEMMA ThreeLines ==
  ASSUME NEW S, NEW a \in S, NEW b \in S, NEW c \in S
  PROVE  /\ <<>> \in Seq(S) /\ <<a>> \in Seq(S) /\ <<a, b>> \in Seq(S)
         /\ <<a, b, c>> \in Seq(S)
         /\ <<a>> # <<>> /\ <<a, b>> # <<>> /\ <<a, b, c>> # <<>>
         /\ Len(<<a, b, c>>) = 3 /\ Len(<<a>>) = 1
OBVIOUS

LEMMA HeaderTyped ==
  ASSUME NEW prodid \in ProdIDs \cup {DefaultProdID}
  PROVE  Writer!HeaderLines(prodid) \in Seq(WireLines)
<1>1. /\ Writer!Plain("BEGIN", "VCALENDAR") \in WireLines
      /\ Writer!Plain("VERSION", "2.0") \in WireLines
      /\ Writer!Plain("PRODID", prodid) \in WireLines
  BY DEF Writer!Plain, Writer!Bare, WireLines
<1> QED BY <1>1, ThreeLines DEF Writer!HeaderLines

LEMMA TrailerTyped == Writer!TrailerLines \in Seq(WireLines)
<1>1. Writer!Plain("END", "VCALENDAR") \in WireLines
  BY DEF Writer!Plain, Writer!Bare, WireLines
<1> QED BY <1>1, ThreeLines DEF Writer!TrailerLines

\* The lines of a card in front of its properties.
Fields(c) ==
  <<Begin, Plain("VERSION", Supported), Plain("UID", c.uid)>>
  \o (IF c.kind # NoValue THEN <<Plain("KIND", c.kind)>> ELSE <<>>)

LEMMA FieldsTyped ==
  ASSUME NEW i \in Items
  PROVE  /\ Fields(CardOf[i]) \in Seq(WireLines)
         /\ CardOf[i].props \in Seq(WireLines) /\ CardOf[i].props \in Seq(PropertyLines)
         /\ <<EndCard>> \in Seq(WireLines)
         /\ EncodeCard(CardOf[i]) = Fields(CardOf[i]) \o CardOf[i].props \o <<EndCard>>
         /\ Writer!EncodeCard(CardOf[i]) = EncodeCard(CardOf[i])
<1> DEFINE c == CardOf[i]
<1>1. /\ c.uid \in Uids \cup {NoValue} /\ c.kind \in CardKinds \cup {NoValue}
      /\ c.props \in Seq(PropertyLines)
  BY EncoderAssumption
<1> HIDE DEF c
<1>2. /\ Begin \in WireLines /\ EndCard \in WireLines
      /\ Plain("VERSION", Supported) \in WireLines
      /\ Plain("UID", c.uid) \in WireLines /\ Plain("KIND", c.kind) \in WireLines
  BY <1>1 DEF Begin, EndCard, Plain, Bare, WireLines
<1>3. Fields(c) \in Seq(WireLines)
  BY <1>2, ThreeLines, ConcatProperties DEF Fields
<1>4. c.props \in Seq(WireLines)
  BY <1>1, SeqMonotonic DEF WireLines
<1>5. EncodeCard(c) = Fields(c) \o c.props \o <<EndCard>>
  BY DEF EncodeCard, Fields
<1>6. Writer!EncodeCard(c) = EncodeCard(c)
  BY DEF EncodeCard, Writer!EncodeCard, Begin, Writer!Begin, EndCard, Writer!EndCard,
         Plain, Writer!Plain, Bare, Writer!Bare, Supported, Writer!Supported
<1> QED BY <1>1, <1>2, <1>3, <1>4, <1>5, <1>6, ThreeLines DEF c

LEMMA ItemTyped ==
  ASSUME NEW i \in Items
  PROVE  Writer!ItemLines(i) \in Seq(WireLines) /\ Writer!ItemLines(i) # <<>>
<1>1. CASE kind = "calendar"
  <2>1. Writer!Plain("BEGIN", i) \in WireLines /\ Writer!Plain("END", i) \in WireLines
    BY DEF Writer!Plain, Writer!Bare, WireLines
  <2> QED BY <1>1, <2>1, ThreeLines DEF Writer!ItemLines
<1>2. CASE kind # "calendar"
  <2> DEFINE front == Fields(CardOf[i]) \o CardOf[i].props
  <2>1. front \in Seq(WireLines)
    BY FieldsTyped, ConcatProperties
  <2>2. front \o <<EndCard>> \in Seq(WireLines) /\ front \o <<EndCard>> # <<>>
    <3> HIDE DEF front
    <3>1. <<EndCard>> \in Seq(WireLines) /\ <<EndCard>> # <<>>
      BY FieldsTyped, ThreeLines
    <3> QED BY <2>1, <3>1, ConcatProperties, ConcatEqualIffEmpty
  <2> QED BY <1>2, <2>2, FieldsTyped DEF Writer!ItemLines
<1> QED BY <1>1, <1>2

\* One item more is its lines more.
LEMMA DocumentAppend ==
  ASSUME NEW items \in Seq(Items), header \in ProdIDs \cup {DefaultProdID}
  PROVE  /\ Writer!Document(items) \in Seq(WireLines)
         /\ Writer!Document(<<>>) = Writer!HeaderLines(header)
         /\ \A i \in Items : Writer!Document(Append(items, i))
                               = Writer!Document(items) \o Writer!ItemLines(i)
<1> DEFINE Of(s) == [k \in DOMAIN s |-> Writer!ItemLines(s[k])]
<1>1. ASSUME NEW s \in Seq(Items)
      PROVE  Of(s) \in Seq(Seq(WireLines)) /\ Len(Of(s)) = Len(s)
  <2>1. \A k \in 1..Len(s) : Writer!ItemLines(s[k]) \in Seq(WireLines)
    BY ItemTyped
  <2> QED BY <2>1
<1>2. Writer!HeaderLines(header) \in Seq(WireLines)
  BY HeaderTyped
<1>3. \A s : Writer!Document(s) = Writer!HeaderLines(header) \o Writer!FlattenSeq(Of(s))
  BY DEF Writer!Document
<1>4. \A s : Writer!FlattenSeq(s) = FlattenSeq(s)
  BY DEF Writer!FlattenSeq, FlattenSeq
<1>5. FlattenSeq(Of(items)) \in Seq(WireLines)
  <2> HIDE DEF Of
  <2> QED BY <1>1, FlattenAppend
<1>6. Writer!Document(<<>>) = Writer!HeaderLines(header)
  <2>1. Of(<<>>) = <<>>
    OBVIOUS
  <2> HIDE DEF Of
  <2>2. FlattenSeq(Of(<<>>)) = <<>>
    BY <2>1, FlattenAppend
  <2> QED BY <1>2, <1>3, <1>4, <2>2, ConcatEmptySeq
<1>7. ASSUME NEW i \in Items
      PROVE  Writer!Document(Append(items, i))
               = Writer!Document(items) \o Writer!ItemLines(i)
  <2>1. Writer!ItemLines(i) \in Seq(WireLines)
    BY ItemTyped
  <2>2. Of(Append(items, i)) = Append(Of(items), Writer!ItemLines(i))
    <3>1. Append(items, i) \in Seq(Items) /\ Len(Append(items, i)) = Len(items) + 1
      OBVIOUS
    <3>2. /\ Of(Append(items, i)) \in Seq(Seq(WireLines))
          /\ Len(Of(Append(items, i))) = Len(items) + 1
      <4> HIDE DEF Of
      <4> QED BY <1>1, <3>1
    <3>3. /\ Append(Of(items), Writer!ItemLines(i)) \in Seq(Seq(WireLines))
          /\ Len(Append(Of(items), Writer!ItemLines(i))) = Len(items) + 1
      <4> HIDE DEF Of
      <4> QED BY <1>1, <2>1
    <3>4. ASSUME NEW k \in 1..Len(items) + 1
          PROVE  Of(Append(items, i))[k] = Append(Of(items), Writer!ItemLines(i))[k]
      <4>1. CASE k = Len(items) + 1
        BY <1>1, <4>1
      <4>2. CASE k # Len(items) + 1
        <5>1. k \in 1..Len(items)
          BY <4>2
        <5> QED BY <1>1, <5>1
      <4> QED BY <4>1, <4>2
    <3> HIDE DEF Of
    <3> QED BY <3>2, <3>3, <3>4, SeqEqual
  <2> HIDE DEF Of
  <2>3. FlattenSeq(Of(Append(items, i))) = FlattenSeq(Of(items)) \o Writer!ItemLines(i)
    BY <1>1, <2>1, <2>2, FlattenAppend
  <2>4. Writer!Document(Append(items, i))
          = Writer!HeaderLines(header) \o (FlattenSeq(Of(items)) \o Writer!ItemLines(i))
    BY <1>3, <1>4, <2>3
  <2>5. Writer!Document(items) = Writer!HeaderLines(header) \o FlattenSeq(Of(items))
    BY <1>3, <1>4
  <2> QED BY <1>2, <1>5, <2>1, <2>4, <2>5, ConcatAssociative
<1> QED BY <1>2, <1>3, <1>4, <1>5, <1>6, <1>7, ConcatProperties

-----------------------------------------------------------------------------
(* The encoder's invariant: what the sink has accepted, what the buffer      *)
(* holds and what the running call has yet to write are, together, the       *)
(* document of the acknowledged items and what this call adds to it.         *)

EncTypes ==
  /\ kind \in {"calendar", "card"}
  /\ header \in ProdIDs \cup {DefaultProdID}
  /\ headerWritten \in BOOLEAN /\ bufErr \in BOOLEAN /\ closed \in BOOLEAN
  /\ buf \in Seq(WireLines) /\ wire \in Seq(WireLines) /\ todo \in Seq(WireLines)
  /\ acked \in Seq(Items)
  /\ running \in {"none", "Encode", "Close"}
  /\ running = "Encode" => item \in Items

Added ==
  CASE running = "Encode" -> Writer!ItemLines(item)
    [] running = "Close" \/ closed -> Writer!TrailerLines
    [] OTHER -> <<>>

\* A calendar whose header is not due yet.
Unstarted ==
  kind = "calendar" /\ ~headerWritten =>
    /\ acked = <<>> /\ wire = <<>> /\ buf = <<>>
    /\ running = "none" /\ ~bufErr /\ ~closed

\* While no flush failed.
Intended ==
  ~bufErr /\ (headerWritten \/ kind = "card") =>
    wire \o (buf \o todo) = Writer!Document(acked) \o Added

\* Afterwards.
Broken ==
  bufErr => /\ Writer!WireIsADocumentPrefix
            /\ ~closed
            /\ running = "Encode" /\ kind = "card" => todo # <<>>

Flushed ==
  /\ kind = "calendar" /\ running = "none" /\ ~bufErr => buf = <<>>
  /\ closed => buf = <<>> /\ running = "none"
  /\ running = "none" => todo = <<>>
  /\ kind = "calendar" /\ acked # <<>> => IsPrefix(Writer!Document(acked), wire)

EncInv == EncTypes /\ Unstarted /\ Intended /\ Broken /\ Flushed

WireInv ==
  IF source = NoSource
  THEN EncInv
  ELSE Writer!WireIsADocumentPrefix /\ Writer!AcknowledgedIsOnWire

LEMMA AddedTyped ==
  ASSUME EncTypes
  PROVE  Added \in Seq(WireLines) /\ Writer!Document(acked) \in Seq(WireLines)
           /\ <<>> \in Seq(WireLines)
BY ItemTyped, TrailerTyped, DocumentAppend, ThreeLines DEF Added, EncTypes

\* An item's lines, the trailer and the document are the same as long as the
\* encoder and its header are.
LEMMA LinesKept ==
  ASSUME kind' = kind
  PROVE  /\ \A i : (Writer!ItemLines(i))' = Writer!ItemLines(i)
         /\ Writer!TrailerLines' = Writer!TrailerLines
         /\ header' = header => \A s : (Writer!Document(s))' = Writer!Document(s)
         /\ header' = header => (Writer!Document(acked))' = Writer!Document(acked')
BY DEF Writer!ItemLines, Writer!TrailerLines, Writer!Document, Writer!HeaderLines

LEMMA PrefixKept ==
  ASSUME UNCHANGED <<kind, header, wire, acked>>
  PROVE  /\ Writer!WireIsADocumentPrefix <=> Writer!WireIsADocumentPrefix'
         /\ UNCHANGED closed =>
              (Writer!AcknowledgedIsOnWire <=> Writer!AcknowledgedIsOnWire')
<1>1. /\ \A i : (Writer!ItemLines(i))' = Writer!ItemLines(i)
      /\ Writer!TrailerLines' = Writer!TrailerLines
      /\ (Writer!Document(acked))' = Writer!Document(acked)
  BY LinesKept
<1> QED BY <1>1 DEF Writer!WireIsADocumentPrefix, Writer!IsPrefix,
                    Writer!AcknowledgedIsOnWire

\* What is on the wire is a prefix of what a call intends.
LEMMA IntendedIsPrefix ==
  ASSUME EncInv, ~bufErr, NEW w \in Seq(WireLines), IsPrefix(w, wire \o buf)
  PROVE  \E i \in Items :
           \/ IsPrefix(w, Writer!Document(acked) \o Writer!ItemLines(i))
           \/ IsPrefix(w, Writer!Document(acked) \o Writer!TrailerLines)
<1> DEFINE D == Writer!Document(acked)
<1>1. /\ D \in Seq(WireLines) /\ Added \in Seq(WireLines)
      /\ buf \in Seq(WireLines) /\ wire \in Seq(WireLines) /\ todo \in Seq(WireLines)
      /\ Writer!TrailerLines \in Seq(WireLines)
  BY AddedTyped, TrailerTyped DEF EncInv, EncTypes
<1>2. PICK i \in Items : TRUE
  BY EncoderAssumption
<1> HIDE DEF D
<1>3. CASE ~headerWritten /\ kind = "calendar"
  <2>1. wire = <<>> /\ buf = <<>>
    BY <1>3 DEF EncInv, Unstarted
  <2>2. wire \o buf = <<>>
    BY <2>1
  <2>3. D \o Writer!TrailerLines \in Seq(WireLines)
    BY <1>1, ConcatProperties
  <2>4. IsPrefix(<<>>, D \o Writer!TrailerLines)
    BY <2>3, PrefixEmpty
  <2>5. IsPrefix(w, <<>>) /\ <<>> \in Seq(WireLines)
    BY <2>2, EmptySeq
  <2>6. IsPrefix(w, D \o Writer!TrailerLines)
    <3> DEFINE none == <<>>
               all == D \o Writer!TrailerLines
    <3>1. /\ IsPrefix(w, none) /\ IsPrefix(none, all)
          /\ none \in Seq(WireLines) /\ all \in Seq(WireLines)
      BY <2>3, <2>4, <2>5
    <3> HIDE DEF none, all
    <3>2. IsPrefix(w, all)
      BY <3>1, PrefixConcat
    <3> QED BY <3>2 DEF all
  <2> QED BY <1>2, <2>6 DEF D
<1>4. CASE headerWritten \/ kind = "card"
  <2>1. wire \o (buf \o todo) = D \o Added
    BY <1>4 DEF EncInv, Intended, D
  <2>2. (wire \o buf) \o todo = D \o Added
    <3>1. /\ wire \in Seq(WireLines) /\ buf \in Seq(WireLines)
          /\ todo \in Seq(WireLines)
      BY <1>1
    <3>2. (wire \o buf) \o todo = wire \o (buf \o todo)
      BY ONLY <3>1, ConcatAssociative
    <3> QED BY <2>1, <3>2
  <2>3. wire \o buf \in Seq(WireLines) /\ D \o Added \in Seq(WireLines)
    BY <1>1, ConcatProperties
  <2>4. IsPrefix(wire \o buf, D \o Added)
    BY <1>1, <2>2, <2>3, PrefixConcat
  <2>5. IsPrefix(w, D \o Added)
    <3> DEFINE sent == wire \o buf
               all == D \o Added
    <3>1. /\ w \in Seq(WireLines) /\ sent \in Seq(WireLines)
          /\ all \in Seq(WireLines)
          /\ IsPrefix(w, sent) /\ IsPrefix(sent, all)
      BY <2>3, <2>4
    <3> HIDE DEF sent, all
    <3>2. IsPrefix(w, all)
      BY ONLY <3>1, PrefixConcat
    <3> QED BY <3>2 DEF all
  <2>6. CASE running = "Encode"
    BY <2>5, <2>6 DEF EncInv, EncTypes, Added, D
  <2>7. CASE running # "Encode" /\ (running = "Close" \/ closed)
    BY <1>2, <2>5, <2>7 DEF Added, D
  <2>8. CASE running # "Encode" /\ running # "Close" /\ ~closed
    <3>1. Added = <<>>
      BY <2>8 DEF Added
    <3>2. IsPrefix(w, D)
      BY <1>1, <2>5, <3>1, ConcatEmptySeq
    <3>3. IsPrefix(w, D \o Writer!TrailerLines)
      BY <1>1, <3>2, PrefixConcat
    <3> QED BY <1>2, <3>3 DEF D
  <2> QED BY <2>6, <2>7, <2>8
<1> QED BY <1>3, <1>4 DEF EncInv, EncTypes

LEMMA EncInvSafe ==
  ASSUME EncInv
  PROVE  Writer!WireIsADocumentPrefix /\ Writer!AcknowledgedIsOnWire
<1>1. /\ buf \in Seq(WireLines) /\ wire \in Seq(WireLines) /\ todo \in Seq(WireLines)
  BY DEF EncInv, EncTypes
<1>2. ASSUME ~bufErr PROVE Writer!WireIsADocumentPrefix
  <2>1. IsPrefix(wire, wire \o buf)
    BY <1>1, PrefixConcat
  <2>2. \E i \in Items :
           \/ IsPrefix(wire, Writer!Document(acked) \o Writer!ItemLines(i))
           \/ IsPrefix(wire, Writer!Document(acked) \o Writer!TrailerLines)
    BY <1>1, <1>2, <2>1, IntendedIsPrefix
  <2> QED BY <2>2 DEF Writer!WireIsADocumentPrefix, Writer!IsPrefix, IsPrefix
<1>3. Writer!WireIsADocumentPrefix
  BY <1>2 DEF EncInv, Broken
<1>4. ASSUME closed PROVE wire = Writer!Document(acked) \o Writer!TrailerLines
  <2>1. /\ ~bufErr /\ buf = <<>> /\ todo = <<>> /\ running = "none"
        /\ headerWritten \/ kind = "card"
    BY <1>4 DEF EncInv, EncTypes, Broken, Flushed, Unstarted
  <2>2. wire \o (<<>> \o <<>>) = Writer!Document(acked) \o Writer!TrailerLines
    BY <1>4, <2>1 DEF EncInv, Intended, Added
  <2>3. <<>> \o <<>> = <<>>
    OBVIOUS
  <2> QED BY <1>1, <2>2, <2>3, ConcatEmptySeq
<1> QED BY <1>3, <1>4 DEF EncInv, Flushed, Writer!AcknowledgedIsOnWire, Writer!IsPrefix,
           IsPrefix

-----------------------------------------------------------------------------
(* The encoder's steps. *)

LEMMA EncStutter ==
  ASSUME EncInv, UNCHANGED <<kind, header, headerWritten, closed, buf, bufErr, wire,
                             running, item, todo, acked>>
  PROVE  EncInv'
<1>1. /\ (Writer!Document(acked))' = Writer!Document(acked)
      /\ Writer!TrailerLines' = Writer!TrailerLines
      /\ (Writer!ItemLines(item))' = Writer!ItemLines(item)
  BY DEF Writer!ItemLines, Writer!TrailerLines, Writer!Document, Writer!HeaderLines
<1>2. Added' = Added
  BY <1>1 DEF Added
<1>3. EncTypes' /\ Unstarted' /\ Intended'
  BY <1>1, <1>2 DEF EncInv, EncTypes, Unstarted, Intended
<1>4. Broken'
  BY PrefixKept DEF EncInv, Broken
<1>5. Flushed'
  BY <1>1 DEF EncInv, Flushed
<1> QED BY <1>3, <1>4, <1>5 DEF EncInv

LEMMA SetHeaderStep ==
  ASSUME EncInv, NEW prodid \in ProdIDs, Writer!SetHeader(prodid)
  PROVE  EncInv'
<1>1. CASE headerWritten
  BY <1>1, EncStutter DEF Writer!SetHeader, Writer!Refuse, Writer!encoder,
                          Writer!output, Writer!call
<1>2. CASE ~headerWritten
  <2>1. /\ kind = "calendar" /\ header' = prodid
        /\ UNCHANGED <<kind, headerWritten, closed, buf, bufErr, wire, running, item,
                       todo, acked>>
    BY <1>2 DEF Writer!SetHeader, Writer!output, Writer!call
  <2>2. /\ acked = <<>> /\ wire = <<>> /\ buf = <<>>
        /\ running = "none" /\ ~bufErr /\ ~closed
    BY <1>2, <2>1 DEF EncInv, Unstarted
  <2>3. EncTypes'
    BY <2>1 DEF EncInv, EncTypes
  <2>4. Unstarted' /\ Broken' /\ Flushed'
    BY <2>1, <2>2 DEF EncInv, Unstarted, Broken, Flushed
  <2>5. Intended'
    BY <1>2, <2>1 DEF Intended
  <2> QED BY <2>3, <2>4, <2>5 DEF EncInv
<1> QED BY <1>1, <1>2 DEF EncInv, EncTypes

\* What is left to show when a call starts.
LEMMA StartKeeps ==
  ASSUME EncInv, running = "none", ~closed,
         NEW method \in {"Encode", "Close"}, running' = method,
         method = "Encode" => item' \in Items,
         headerWritten' = (kind = "calendar"),
         UNCHANGED <<kind, header, closed, buf, bufErr, wire, acked>>,
         NEW STATE lines,
         lines = IF method = "Encode" THEN Writer!ItemLines(item')
                                      ELSE Writer!TrailerLines,
         todo' \in Seq(WireLines),
         ~bufErr => wire \o (buf \o todo') = Writer!Document(acked) \o lines,
         bufErr /\ method = "Encode" => todo' # <<>>
  PROVE  EncInv'
<1>1. /\ (Writer!Document(acked))' = Writer!Document(acked)
      /\ Writer!TrailerLines' = Writer!TrailerLines
      /\ (Writer!ItemLines(item))' = Writer!ItemLines(item')
  BY DEF Writer!ItemLines, Writer!TrailerLines, Writer!Document, Writer!HeaderLines
<1>2. Added' = lines
  BY <1>1 DEF Added
<1>3. EncTypes'
  BY DEF EncInv, EncTypes
<1>4. Unstarted'
  BY DEF Unstarted
<1>5. Intended'
  BY <1>1, <1>2 DEF Intended
<1>6. Broken'
  BY PrefixKept DEF EncInv, Broken
<1>7. Flushed'
  BY <1>1 DEF EncInv, Flushed
<1> QED BY <1>3, <1>4, <1>5, <1>6, <1>7 DEF EncInv

\* A call that starts intends its lines behind the document so far, whose header
\* is due with it if it was not before.
LEMMA StartStep ==
  ASSUME EncInv, running = "none", ~closed,
         NEW method \in {"Encode", "Close"}, NEW argument,
         method = "Encode" => argument \in Items,
         NEW STATE lines,
         lines = IF method = "Encode" THEN Writer!ItemLines(argument)
                                      ELSE Writer!TrailerLines,
         Writer!Start(method, argument, lines)
  PROVE  EncInv'
<1> DEFINE D == Writer!Document(acked)
<1>1. /\ running' = method /\ item' = argument /\ todo' = Writer!Header \o lines
      /\ headerWritten' = (kind = "calendar")
      /\ UNCHANGED <<kind, header, closed, buf, bufErr, wire, acked>>
  BY DEF Writer!Start, Writer!output
<1>2. /\ kind \in {"calendar", "card"} /\ header \in ProdIDs \cup {DefaultProdID}
      /\ buf \in Seq(WireLines) /\ wire \in Seq(WireLines) /\ acked \in Seq(Items)
      /\ todo = <<>>
  BY DEF EncInv, EncTypes, Flushed
<1>3. /\ lines \in Seq(WireLines) /\ (method = "Encode" => lines # <<>>)
      /\ D \in Seq(WireLines)
  BY ItemTyped, TrailerTyped, AddedTyped DEF EncInv
<1>4. Writer!HeaderLines(header) \in Seq(WireLines)
        /\ (kind = "card" => Writer!HeaderLines(header) = <<>>)
  BY <1>2, HeaderTyped DEF Writer!HeaderLines
<1>5. CASE headerWritten \/ kind = "card"
  <2>1. Writer!Header = <<>>
    BY <1>4, <1>5 DEF Writer!Header
  <2>2. todo' = lines
    BY <1>1, <1>3, <2>1, ConcatEmptySeq
  <2>3. ASSUME ~bufErr PROVE wire \o (buf \o lines) = D \o lines
    <3>1. wire \o (buf \o <<>>) = D \o <<>>
      BY <1>2, <1>5, <2>3 DEF EncInv, Intended, Added
    <3>2. wire \o buf = D
      BY <1>2, <1>3, <3>1, ConcatEmptySeq
    <3>3. /\ wire \in Seq(WireLines) /\ buf \in Seq(WireLines)
          /\ lines \in Seq(WireLines)
      BY <1>2, <1>3
    <3>4. (wire \o buf) \o lines = wire \o (buf \o lines)
      BY ONLY <3>3, ConcatAssociative
    <3> QED BY <3>2, <3>4
  <2> QED BY <1>1, <1>2, <1>3, <2>2, <2>3, StartKeeps
<1>6. CASE ~headerWritten /\ kind = "calendar"
  <2>1. acked = <<>> /\ wire = <<>> /\ buf = <<>> /\ ~bufErr
    BY <1>6 DEF EncInv, Unstarted
  <2>2. Writer!Header = Writer!HeaderLines(header) /\ D = Writer!HeaderLines(header)
    BY <1>2, <1>6, <2>1, DocumentAppend DEF Writer!Header
  <2>3. todo' = D \o lines
    BY <1>1, <2>2
  <2>4. D \o lines \in Seq(WireLines)
    BY <1>3, ConcatProperties
  <2>5. wire \o (buf \o todo') = D \o lines
    BY <2>1, <2>3, <2>4, ConcatEmptySeq
  <2> QED BY <1>1, <1>2, <1>3, <1>6, <2>1, <2>3, <2>4, <2>5, StartKeeps
<1> QED BY <1>2, <1>5, <1>6 DEF EncInv, EncTypes

LEMMA EncodeStep ==
  ASSUME EncInv, NEW i \in Items, Writer!Encode(i)
  PROVE  EncInv'
<1>1. running = "none"
  BY DEF Writer!Encode, Writer!Call
<1>2. CASE \E error : Writer!Refuse(error)
  BY <1>2, EncStutter DEF Writer!Refuse, Writer!encoder, Writer!output, Writer!call
<1>3. CASE ~closed /\ Writer!Start("Encode", i, Writer!ItemLines(i))
  BY <1>1, <1>3, StartStep
<1>4. \/ Writer!Refuse("already closed") \/ Writer!Refuse("missing UID")
      \/ ~closed /\ Writer!Start("Encode", i, Writer!ItemLines(i))
  BY DEF Writer!Encode
<1> QED BY <1>2, <1>3, <1>4

LEMMA CloseStep ==
  ASSUME EncInv, Writer!Close
  PROVE  EncInv'
<1>1. running = "none"
  BY DEF Writer!Close, Writer!Call
<1>2. CASE Writer!Refuse("already closed")
  BY <1>2, EncStutter DEF Writer!Refuse, Writer!encoder, Writer!output, Writer!call
<1>3. CASE ~closed /\ Writer!Start("Close", Writer!NoItem, Writer!TrailerLines)
  BY <1>1, <1>3, StartStep
<1> QED BY <1>2, <1>3 DEF Writer!Close

\* A call is running only once the header is due.
LEMMA RunningFacts ==
  ASSUME EncInv, running # "none"
  PROVE  /\ headerWritten \/ kind = "card"
         /\ ~closed
         /\ (running = "Encode" /\ item \in Items) \/ running = "Close"
         /\ running = "Encode" => Added = Writer!ItemLines(item)
         /\ running = "Close" => Added = Writer!TrailerLines
BY DEF EncInv, EncTypes, Unstarted, Flushed, Added

\* Lines move on from the call to the buffer or from there to the sink.
LEMMA MoveStep ==
  ASSUME EncInv, running # "none", ~bufErr,
         UNCHANGED <<kind, header, headerWritten, closed, bufErr, running, item, acked>>,
         buf' \in Seq(WireLines), wire' \in Seq(WireLines), todo' \in Seq(WireLines),
         IsPrefix(wire, wire'),
         wire' \o (buf' \o todo') = wire \o (buf \o todo)
  PROVE  EncInv'
<1>1. /\ (Writer!Document(acked))' = Writer!Document(acked)
      /\ Writer!TrailerLines' = Writer!TrailerLines
      /\ (Writer!ItemLines(item))' = Writer!ItemLines(item)
  BY DEF Writer!ItemLines, Writer!TrailerLines, Writer!Document, Writer!HeaderLines
<1>2. Added' = Added
  BY <1>1 DEF Added
<1>3. EncTypes'
  BY DEF EncInv, EncTypes
<1>4. Unstarted' /\ Broken'
  BY RunningFacts DEF EncInv, EncTypes, Unstarted, Broken
<1>5. Intended'
  BY <1>1, <1>2 DEF EncInv, Intended
<1>6. ASSUME kind = "calendar", acked # <<>>
      PROVE  IsPrefix(Writer!Document(acked), wire')
  <2>1. IsPrefix(Writer!Document(acked), wire)
    BY <1>6 DEF EncInv, Flushed
  <2>2. Writer!Document(acked) \in Seq(WireLines) /\ wire \in Seq(WireLines)
    BY AddedTyped DEF EncInv, EncTypes
  <2> QED BY <2>1, <2>2, PrefixConcat
<1>7. Flushed'
  BY <1>1, <1>6, RunningFacts DEF Flushed
<1> QED BY <1>3, <1>4, <1>5, <1>7 DEF EncInv

LEMMA BufferStep ==
  ASSUME EncInv, Writer!Buffer
  PROVE  EncInv'
<1>1. /\ todo # <<>> /\ ~bufErr /\ buf' = Append(buf, Head(todo)) /\ todo' = Tail(todo)
      /\ UNCHANGED <<kind, header, headerWritten, closed, bufErr, wire, running, item,
                     acked>>
  BY DEF Writer!Buffer, Writer!encoder, Writer!history
<1>2. /\ buf \in Seq(WireLines) /\ todo \in Seq(WireLines) /\ wire \in Seq(WireLines)
      /\ running # "none"
  BY <1>1 DEF EncInv, EncTypes, Flushed
<1>3. /\ buf' \in Seq(WireLines) /\ todo' \in Seq(WireLines)
      /\ buf' \o todo' = buf \o todo
  BY <1>1, <1>2, MoveHead
<1>4. IsPrefix(wire, wire)
  BY <1>2, PrefixIs
<1> QED BY <1>1, <1>2, <1>3, <1>4, MoveStep

LEMMA MakeRoomStep ==
  ASSUME EncInv, Writer!MakeRoom
  PROVE  EncInv'
<1>1. /\ todo # <<>> /\ ~bufErr /\ wire' = wire \o buf /\ buf' = <<>>
      /\ UNCHANGED <<kind, header, headerWritten, closed, bufErr, running, item, todo,
                     acked>>
  BY DEF Writer!MakeRoom, Writer!FlushOK, Writer!encoder, Writer!call, Writer!history
<1>2. /\ buf \in Seq(WireLines) /\ todo \in Seq(WireLines) /\ wire \in Seq(WireLines)
      /\ running # "none"
  BY <1>1 DEF EncInv, EncTypes, Flushed
<1>3. wire' \in Seq(WireLines) /\ buf' \in Seq(WireLines) /\ IsPrefix(wire, wire')
  BY <1>1, <1>2, ConcatProperties, PrefixConcat, EmptySeq
<1>4. wire' \o (buf' \o todo') = wire \o (buf \o todo)
  <2>1. buf' \o todo' = todo
    BY <1>1, <1>2, ConcatEmptySeq
  <2>2. (wire \o buf) \o todo = wire \o (buf \o todo)
    BY ONLY <1>2, ConcatAssociative
  <2> QED BY <1>1, <2>1, <2>2
<1> QED BY <1>1, <1>2, <1>3, <1>4, MoveStep

\* A flush that fails breaks the encoder off where it is; so does a write after
\* one.
LEMMA BreakStep ==
  ASSUME EncInv, running # "none", running' = "none", todo' = <<>>, bufErr',
         UNCHANGED <<kind, header, headerWritten, closed, item, acked>>,
         buf' \in Seq(WireLines),
         \/ bufErr /\ UNCHANGED wire
         \/ /\ ~bufErr
            /\ \E n \in 0..Len(buf) : wire' = wire \o SubSeq(buf, 1, n)
  PROVE  EncInv'
<1>1. /\ buf \in Seq(WireLines) /\ wire \in Seq(WireLines) /\ acked \in Seq(Items)
      /\ Writer!Document(acked) \in Seq(WireLines)
  BY AddedTyped DEF EncInv, EncTypes
<1>2. /\ wire' \in Seq(WireLines)
      /\ IsPrefix(wire, wire')
      /\ ~bufErr => IsPrefix(wire', wire \o buf)
  <2>1. CASE UNCHANGED wire /\ bufErr
    BY <1>1, <2>1, PrefixIs
  <2>2. ASSUME NEW n \in 0..Len(buf), wire' = wire \o SubSeq(buf, 1, n)
        PROVE  /\ wire' \in Seq(WireLines)
               /\ IsPrefix(wire, wire') /\ IsPrefix(wire', wire \o buf)
    <3> DEFINE front == SubSeq(buf, 1, n)
               back == SubSeq(buf, n + 1, Len(buf))
    <3>1. /\ front \in Seq(WireLines) /\ back \in Seq(WireLines)
          /\ front \o back = buf /\ wire' = wire \o front
      BY <1>1, <2>2, CutInTwo
    <3> HIDE DEF front, back
    <3>2. wire' \in Seq(WireLines) /\ IsPrefix(wire, wire')
      BY <1>1, <3>1, ConcatProperties, PrefixConcat
    <3>3. /\ wire \in Seq(WireLines) /\ front \in Seq(WireLines)
          /\ back \in Seq(WireLines)
      BY <1>1, <3>1
    <3>4. (wire \o front) \o back = wire \o (front \o back)
      BY ONLY <3>3, ConcatAssociative
    <3>5. wire \o buf = wire' \o back
      BY <3>1, <3>4
    <3> QED BY <3>1, <3>2, <3>5, PrefixConcat
  <2> QED BY <2>1, <2>2
<1>3. /\ (Writer!Document(acked))' = Writer!Document(acked)
      /\ Writer!TrailerLines' = Writer!TrailerLines
      /\ \A i : (Writer!ItemLines(i))' = Writer!ItemLines(i)
  BY DEF Writer!ItemLines, Writer!TrailerLines, Writer!Document, Writer!HeaderLines
<1>4. Writer!WireIsADocumentPrefix'
  <2>1. CASE bufErr
    BY <2>1, PrefixKept DEF EncInv, Broken
  <2>2. CASE ~bufErr
    <3>1. \E i \in Items :
            \/ IsPrefix(wire', Writer!Document(acked) \o Writer!ItemLines(i))
            \/ IsPrefix(wire', Writer!Document(acked) \o Writer!TrailerLines)
      BY <1>2, <2>2, IntendedIsPrefix
    <3> QED BY <1>3, <3>1 DEF Writer!WireIsADocumentPrefix, Writer!IsPrefix, IsPrefix
  <2> QED BY <2>1, <2>2
<1>5. /\ headerWritten \/ kind = "card"
      /\ ~closed
  BY RunningFacts
<1>6. EncTypes'
  BY <1>2, EmptySeq DEF EncInv, EncTypes
<1>7. Unstarted' /\ Intended' /\ Broken'
  BY <1>4, <1>5, <1>6 DEF EncInv, EncTypes, Unstarted, Intended, Broken
<1>8. ASSUME kind = "calendar", acked # <<>>
      PROVE  IsPrefix(Writer!Document(acked), wire')
  <2>1. IsPrefix(Writer!Document(acked), wire)
    BY <1>8 DEF EncInv, Flushed
  <2> QED BY <1>1, <1>2, <2>1, PrefixConcat
<1>9. Flushed'
  BY <1>3, <1>5, <1>8 DEF Flushed
<1> QED BY <1>6, <1>7, <1>9 DEF EncInv

LEMMA FailSteps ==
  ASSUME EncInv, Writer!CannotMakeRoom \/ Writer!WriteRefused \/ Writer!FinishFails
  PROVE  EncInv'
<1>1. /\ running # "none" /\ running' = "none" /\ todo' = <<>>
      /\ UNCHANGED <<kind, header, headerWritten, closed, item, acked>>
  BY DEF Writer!CannotMakeRoom, Writer!WriteRefused, Writer!FinishFails, Writer!GiveUp,
         Writer!Return, Writer!encoder, Writer!history, EncInv, Flushed
<1>2. buf \in Seq(WireLines)
  BY DEF EncInv, EncTypes
<1>3. CASE Writer!FlushFails
  <2>1. PICK n \in 0..Len(buf) :
          /\ wire' = wire \o SubSeq(buf, 1, n)
          /\ buf' = SubSeq(buf, n + 1, Len(buf))
    BY <1>3 DEF Writer!FlushFails
  <2>2. buf' \in Seq(WireLines) /\ bufErr' /\ ~bufErr
    BY <1>2, <1>3, <2>1, CutInTwo DEF Writer!FlushFails
  <2> QED BY <1>1, <2>1, <2>2, BreakStep
<1>4. CASE bufErr /\ UNCHANGED Writer!output
  BY <1>1, <1>2, <1>4, BreakStep DEF Writer!output
<1> QED BY <1>3, <1>4 DEF Writer!CannotMakeRoom, Writer!WriteRefused, Writer!FinishFails

\* A call that succeeds adds its item, or closes the document.
LEMMA FinishStep ==
  ASSUME EncInv, Writer!Finish
  PROVE  EncInv'
<1> DEFINE D == Writer!Document(acked)
<1>1. /\ running # "none" /\ todo = <<>>
      /\ running' = "none" /\ todo' = <<>>
      /\ closed' = (running = "Close")
      /\ acked' = IF running = "Encode" THEN Append(acked, item) ELSE acked
      /\ UNCHANGED <<kind, header, headerWritten, item>>
  BY DEF Writer!Finish, Writer!Return
<1>2. /\ buf \in Seq(WireLines) /\ wire \in Seq(WireLines) /\ acked \in Seq(Items)
      /\ D \in Seq(WireLines) /\ Added \in Seq(WireLines)
      /\ header \in ProdIDs \cup {DefaultProdID} /\ kind \in {"calendar", "card"}
  BY AddedTyped DEF EncInv, EncTypes
<1>3. /\ headerWritten \/ kind = "card"
      /\ ~closed
      /\ (running = "Encode" /\ item \in Items) \/ running = "Close"
      /\ running = "Encode" => Added = Writer!ItemLines(item)
      /\ running = "Close" => Added = Writer!TrailerLines
  BY <1>1, RunningFacts
<1>4. ~bufErr /\ ~bufErr' /\ wire' \o buf' = wire \o buf
        /\ wire' \in Seq(WireLines) /\ buf' \in Seq(WireLines)
        /\ (kind = "calendar" \/ running = "Close" => buf' = <<>>)
  <2>1. CASE Writer!FlushAtEnd
    <3>1. ~bufErr /\ ~bufErr' /\ wire' = wire \o buf /\ buf' = <<>>
      BY <2>1 DEF Writer!Finish, Writer!FlushOK, EncInv, EncTypes
    <3>2. wire' \in Seq(WireLines)
      BY <1>2, <3>1, ConcatProperties
    <3> QED BY <3>1, <3>2, ConcatEmptySeq, EmptySeq
  <2>2. CASE ~Writer!FlushAtEnd
    <3>1. UNCHANGED <<wire, buf, bufErr>> /\ kind # "calendar" /\ running # "Close"
      BY <2>2 DEF Writer!Finish, Writer!output, Writer!FlushAtEnd
    <3>2. kind = "card" /\ running = "Encode"
      BY <1>2, <1>3, <3>1
    <3>3. ~bufErr
      BY <1>1, <3>2 DEF EncInv, Broken
    <3> QED BY <1>2, <3>1, <3>3
  <2> QED BY <2>1, <2>2
<1>5. wire' \o buf' = D \o Added
  <2>1. wire \o (buf \o <<>>) = D \o Added
    BY <1>1, <1>3, <1>4 DEF EncInv, Intended
  <2> QED BY <1>2, <1>4, <2>1, ConcatEmptySeq
<1>6. /\ (Writer!Document(acked))' = Writer!Document(acked')
      /\ Writer!TrailerLines' = Writer!TrailerLines
  BY <1>1, LinesKept
<1>7. acked' \in Seq(Items)
  BY <1>1, <1>2, <1>3
<1>8. /\ EncTypes' /\ Unstarted' /\ Broken'
  <2>1. todo' \in Seq(WireLines) /\ closed' \in BOOLEAN /\ bufErr' \in BOOLEAN
    <3>1. bufErr' = bufErr
      BY DEF Writer!Finish, Writer!FlushOK, Writer!output
    <3>2. <<>> \in Seq(WireLines)
      BY EmptySeq
    <3> QED BY <1>1, <3>1, <3>2 DEF EncInv, EncTypes
  <2>2. EncTypes'
    BY <1>1, <1>4, <1>7, <2>1 DEF EncInv, EncTypes
  <2> QED BY <1>1, <1>3, <1>4, <2>2 DEF EncInv, EncTypes, Unstarted, Broken
<1>9. wire' \o (buf' \o todo') = wire' \o buf'
  BY <1>1, <1>4, ConcatEmptySeq
<1>10. CASE running = "Encode"
  <2>1. (Writer!Document(acked))' = wire' \o buf' /\ ~closed'
    BY <1>1, <1>2, <1>3, <1>5, <1>6, <1>10, DocumentAppend
  <2>2. wire' \o buf' \in Seq(WireLines)
    BY <1>4, ConcatProperties
  <2>3. Added' = <<>>
    BY <1>1, <2>1 DEF Added
  <2>4. Intended'
    BY <1>9, <2>1, <2>2, <2>3, ConcatEmptySeq DEF Intended
  <2>5. ASSUME kind = "calendar" PROVE IsPrefix((Writer!Document(acked))', wire')
    <3>1. wire' \o buf' = wire'
      BY <1>4, <2>5, ConcatEmptySeq
    <3> QED BY <1>4, <2>1, <3>1, PrefixIs
  <2>6. Flushed'
    BY <1>1, <1>4, <2>1, <2>5 DEF Flushed
  <2> QED BY <1>8, <2>4, <2>6 DEF EncInv
<1>11. CASE running = "Close"
  <2>1. (Writer!Document(acked))' = D /\ closed' /\ acked' = acked
    BY <1>1, <1>6, <1>11
  <2>2. Added' = Added
    BY <1>1, <1>3, <1>6, <1>11, <2>1 DEF Added
  <2>3. Intended'
    BY <1>5, <1>9, <2>1, <2>2 DEF Intended
  <2>4. ASSUME kind = "calendar", acked # <<>> PROVE IsPrefix(D, wire')
    <3>1. wire' = D \o Added
      BY <1>4, <1>5, <1>11, ConcatEmptySeq
    <3> QED BY <1>2, <3>1, PrefixConcat
  <2>5. Flushed'
    BY <1>1, <1>4, <1>11, <2>1, <2>4 DEF Flushed
  <2> QED BY <1>8, <2>3, <2>5 DEF EncInv
<1> QED BY <1>3, <1>10, <1>11

LEMMA EncStep ==
  ASSUME EncInv, Writer!Next
  PROVE  EncInv'
BY SetHeaderStep, EncodeStep, CloseStep, BufferStep, MakeRoomStep, FailSteps, FinishStep
   DEF Writer!Next

LEMMA EncInit ==
  ASSUME Writer!Init
  PROVE  EncInv
<1>1. /\ kind \in {"calendar", "card"} /\ header = DefaultProdID
      /\ ~headerWritten /\ ~closed /\ ~bufErr
      /\ headerWritten \in BOOLEAN /\ closed \in BOOLEAN /\ bufErr \in BOOLEAN
      /\ buf = <<>> /\ wire = <<>> /\ todo = <<>> /\ acked = <<>> /\ running = "none"
  BY EncoderAssumption DEF Writer!Init
<1>2. <<>> \in Seq(WireLines) /\ <<>> \in Seq(Items)
  BY EmptySeq
<1>3. EncTypes
  BY <1>1, <1>2 DEF EncTypes
<1>4. Unstarted /\ Broken /\ Flushed
  BY <1>1 DEF Unstarted, Broken, Flushed
<1>5. ASSUME kind = "card"
      PROVE  wire \o (buf \o todo) = Writer!Document(acked) \o Added
  <2>1. Writer!Document(<<>>) = <<>>
    BY <1>1, <1>2, <1>5, DocumentAppend DEF Writer!HeaderLines
  <2>2. Added = <<>>
    BY <1>1 DEF Added
  <2> QED BY <1>1, <2>1, <2>2
<1>6. Intended
  BY <1>1, <1>5 DEF Intended
<1> QED BY <1>3, <1>4, <1>6 DEF EncInv

\* The reader's steps leave the encoder as it is, and go on reading what they
\* have begun to read.
LEMMA ReaderLeavesEncoder ==
  ASSUME NextCall \/ ReadLine
  PROVE  /\ UNCHANGED <<kind, header, headerWritten, buf, bufErr, running, item, todo,
                        closed, wire, acked>>
         /\ source' = source
BY DEF NextCall, ReadLine, memory, Call, Read, ReadBegin, ReadStray, ReadProperty,
       ReadNestedOrGarbled, ReadEnd, ReadEOF, ReadError, Deliver

LEMMA WireStep == WireInv /\ [ExNext]_exVars => WireInv'
<1> SUFFICES ASSUME WireInv, [ExNext]_exVars PROVE WireInv'
  OBVIOUS
<1>1. CASE /\ UNCHANGED <<kind, header, headerWritten, buf, bufErr, running, item, todo,
                          closed, wire, acked>>
           /\ source' = source
  BY <1>1, EncStutter, PrefixKept DEF WireInv
<1>2. CASE Write
  <2>1. source = NoSource /\ source' = source /\ Writer!Next
    BY <1>2 DEF Write, vars
  <2> QED BY <2>1, EncStep DEF WireInv
<1>3. CASE Stop
  <2>1. /\ source = NoSource /\ source' = Text(wire)
        /\ UNCHANGED <<kind, header, closed, wire, acked>>
    BY <1>3 DEF Stop
  <2>2. Writer!WireIsADocumentPrefix /\ Writer!AcknowledgedIsOnWire
    BY <2>1, EncInvSafe DEF WireInv
  <2>3. Writer!WireIsADocumentPrefix' /\ Writer!AcknowledgedIsOnWire'
    BY <2>1, <2>2, PrefixKept
  <2>4. source' # NoSource
    <3>1. source'.from = "a text" /\ NoSource.from = "nowhere"
      BY <2>1 DEF Text, NoSource
    <3> QED BY <3>1
  <2> QED BY <2>3, <2>4 DEF WireInv
<1>4. CASE UNCHANGED exVars
  BY <1>1, <1>4 DEF exVars, memory, vars
<1> QED BY <1>1, <1>2, <1>3, <1>4, ReaderLeavesEncoder DEF ExNext

LEMMA WireInit == ExInit => WireInv
<1> SUFFICES ASSUME ExInit PROVE WireInv
  OBVIOUS
<1>1. EncInv
  BY EncInit DEF ExInit
<1> QED BY <1>1, EncInvSafe DEF WireInv

LEMMA WireAlways == ExSpec => []WireInv
<1>1. WireInv /\ [ExNext]_exVars => WireInv'
  BY WireStep
<1> QED BY WireInit, <1>1, PTL DEF ExSpec

\* Whatever the sink of a streaming encoder accepted, and however often calls
\* were repeated after it failed, is the beginning of one document: the header
\* once, the acknowledged items whole and in order, and behind them at most one
\* item or the trailer, possibly cut short.
THEOREM WireIsOneDocument == ExSpec => []WireIsADocumentPrefix
<1>1. WireInv => WireIsADocumentPrefix
  BY EncInvSafe DEF WireInv, WireIsADocumentPrefix
<1> QED BY WireAlways, <1>1, PTL

\* A nil error is a promise kept: every component whose Encode returned nil is
\* on the wire, and after a Close that returned nil so is the whole document.
THEOREM PromisesKept == ExSpec => []AcknowledgedIsOnWire
<1>1. WireInv => AcknowledgedIsOnWire
  BY EncInvSafe DEF WireInv, AcknowledgedIsOnWire
<1> QED BY WireAlways, <1>1, PTL

-----------------------------------------------------------------------------
(* The card reader beside the batch parser. *)

LEMMA CardLines ==
  /\ Begin # EndCard /\ Begin # Garbled /\ EndCard # Garbled
  /\ Begin \in Lines /\ EndCard \in Lines /\ Garbled \in Lines
  /\ Begin \notin PropertyLines /\ EndCard \notin PropertyLines /\ Garbled \notin PropertyLines
  /\ ~Begin.grouped /\ ~EndCard.grouped /\ ~Garbled.grouped
  /\ Begin.name # "VERSION" /\ EndCard.name # "VERSION"
  /\ \A line \in PropertyLines :
       /\ line \in Lines /\ line \notin {Begin, EndCard, Garbled}
       /\ line.name \in {"VERSION", "UID", "KIND", "X"}
       /\ line.grouped \in BOOLEAN
       /\ "VERSION" \notin GroupedNames /\ line.name = "VERSION" => ~line.grouped
  /\ \A line \in Lines : line \in PropertyLines \/ line \in {Begin, EndCard, Garbled}
<1>1. Begin.name = "BEGIN" /\ EndCard.name = "END" /\ Garbled.name = "garbled"
        /\ ~Begin.grouped /\ ~EndCard.grouped /\ ~Garbled.grouped
  BY DEF Begin, EndCard, Garbled, Bare
<1>2. ASSUME NEW line \in PropertyLines
      PROVE  /\ line.name \in {"VERSION", "UID", "KIND", "X"}
             /\ line.grouped \in BOOLEAN
             /\ "VERSION" \notin GroupedNames /\ line.name = "VERSION" => ~line.grouped
  BY DEF PropertyLines, Line
<1>3. Lines = PropertyLines \cup {Begin, EndCard, Garbled}
  BY DEF Lines
<1> QED BY <1>1, <1>2, <1>3

\* The batch parser's state is the record it started as.
BatchTyped ==
  /\ batch = [ok |-> batch.ok, open |-> batch.open, card |-> batch.card,
              version |-> batch.version, cards |-> batch.cards]
  /\ batch.ok \in BOOLEAN /\ batch.open \in BOOLEAN

Ungrouped == \A k \in DOMAIN input : ~input[k].grouped

\* What the two parsers have in common, as long as no line carries a group; and
\* the part of it that groups do not disturb.
InStepWithBatch ==
  /\ batch.ok
  /\ batch.open <=> pc = "inside"
  /\ batch.open => batch.version = version
  /\ Ungrouped => batch.cards = yielded /\ (batch.open => batch.card = card)

AgreeInv ==
  /\ BatchTyped
  /\ input \in Seq(Lines)
  /\ pc \in {"idle", "outside", "inside"}
  /\ IF failed THEN ~batch.ok ELSE InStepWithBatch

LEMMA InputGrows ==
  ASSUME input \in Seq(Lines), NEW line \in Lines, Deliver(line)
  PROVE  /\ input' \in Seq(Lines) /\ input' = Append(input, line)
         /\ Len(input') = Len(input) + 1 /\ Len(input) \in Nat
         /\ \A k \in 1..Len(input) : input'[k] = input[k]
         /\ input'[Len(input) + 1] = line
         /\ DOMAIN input = 1..Len(input) /\ DOMAIN input' = 1..Len(input) + 1
         /\ Ungrouped' <=> Ungrouped /\ ~line.grouped
         /\ batch' = BatchStep(batch, line) /\ source' = source /\ eof' = eof /\ ~eof
         /\ done' = done /\ failures' = failures
<1>1. /\ input' = Append(input, line) /\ batch' = BatchStep(batch, line)
      /\ source' = source /\ eof' = eof /\ ~eof /\ done' = done /\ failures' = failures
  BY DEF Deliver
<1>2. /\ input' \in Seq(Lines) /\ Len(input') = Len(input) + 1 /\ Len(input) \in Nat
      /\ \A k \in 1..Len(input) : input'[k] = input[k]
      /\ input'[Len(input) + 1] = line
      /\ DOMAIN input = 1..Len(input) /\ DOMAIN input' = 1..Len(input) + 1
  BY <1>1, AppendProperties, LenProperties
<1>3. Ungrouped' <=> Ungrouped /\ ~line.grouped
  <2>1. ASSUME Ungrouped' PROVE Ungrouped /\ ~line.grouped
    <3>1. Len(input) + 1 \in 1..Len(input) + 1
      BY <1>2
    <3>2. \A k \in 1..Len(input) : k \in 1..Len(input) + 1
      BY <1>2
    <3> QED BY <1>2, <2>1, <3>1, <3>2 DEF Ungrouped
  <2>2. ASSUME Ungrouped, ~line.grouped PROVE Ungrouped'
    <3>1. \A k \in 1..Len(input) + 1 : k \in 1..Len(input) \/ k = Len(input) + 1
      BY <1>2
    <3> QED BY <1>2, <2>2, <3>1 DEF Ungrouped
  <2> QED BY <2>1, <2>2
<1> QED BY <1>1, <1>2, <1>3

\* The batch parser's next state, one kind of line at a time.
LEMMA BatchStepIs ==
  ASSUME BatchTyped, NEW line \in Lines
  PROVE  LET b == BatchStep(batch, line) IN
         /\ ~batch.ok => b = batch
         /\ batch.ok /\ line = Begin =>
              b = IF batch.open
                  THEN BatchFail(batch)
                  ELSE [ok |-> TRUE, open |-> TRUE, card |-> EmptyCard,
                        version |-> NoValue, cards |-> batch.cards]
         /\ batch.ok /\ line = EndCard =>
              b = IF batch.open /\ batch.version = Supported
                  THEN [ok |-> TRUE, open |-> FALSE, card |-> EmptyCard,
                        version |-> NoValue, cards |-> Append(batch.cards, batch.card)]
                  ELSE BatchFail(batch)
         /\ batch.ok /\ line = Garbled => b = BatchFail(batch)
         /\ batch.ok /\ line \in PropertyLines =>
              b = IF ~batch.open
                  THEN BatchFail(batch)
                  ELSE IF BatchName(line) = "VERSION"
                       THEN IF batch.version # NoValue
                            THEN BatchFail(batch)
                            ELSE [batch EXCEPT !.version = line.value]
                       ELSE [batch EXCEPT !.card = Store(@, line, BatchName(line))]
<1>1. ~batch.ok => BatchStep(batch, line) = batch
  BY DEF BatchStep
<1>2. ASSUME batch.ok, line = Begin
      PROVE  BatchStep(batch, line) =
               IF batch.open
               THEN BatchFail(batch)
               ELSE [ok |-> TRUE, open |-> TRUE, card |-> EmptyCard,
                     version |-> NoValue, cards |-> batch.cards]
  <2>1. line # EndCard
    BY <1>2, CardLines
  <2>2. BatchStep(batch, line) =
          IF batch.open
          THEN BatchFail(batch)
          ELSE [BatchStart EXCEPT !.open = TRUE, !.cards = batch.cards]
    BY <1>2, <2>1 DEF BatchStep
  <2> DEFINE none == <<>>
             yes == TRUE
             no == FALSE
             opened == [ok |-> yes, open |-> yes, card |-> EmptyCard,
                        version |-> NoValue, cards |-> none]
  <2>3. [BatchStart EXCEPT !.open = TRUE, !.cards = batch.cards] =
          [[BatchStart EXCEPT !.open = TRUE] EXCEPT !.cards = batch.cards]
    OBVIOUS
  <2>4. BatchStart = [ok |-> yes, open |-> no, card |-> EmptyCard,
                      version |-> NoValue, cards |-> none]
    BY DEF BatchStart
  <2> HIDE DEF none, no, yes
  <2>5. [BatchStart EXCEPT !.open = yes] = opened
    BY <2>4
  <2>6. [opened EXCEPT !.cards = batch.cards] =
          [ok |-> yes, open |-> yes, card |-> EmptyCard,
           version |-> NoValue, cards |-> batch.cards]
    OBVIOUS
  <2> HIDE DEF opened
  <2>7. [BatchStart EXCEPT !.open = TRUE, !.cards = batch.cards] =
          [ok |-> TRUE, open |-> TRUE, card |-> EmptyCard,
           version |-> NoValue, cards |-> batch.cards]
    BY <2>3, <2>5, <2>6 DEF yes
  <2> QED BY <2>2, <2>7
<1>3. ASSUME batch.ok, line = EndCard
      PROVE  BatchStep(batch, line) =
               IF batch.open /\ batch.version = Supported
               THEN [ok |-> TRUE, open |-> FALSE, card |-> EmptyCard,
                     version |-> NoValue, cards |-> Append(batch.cards, batch.card)]
               ELSE BatchFail(batch)
  <2>1. BatchStep(batch, line) = BatchClose(batch)
    BY <1>3, CardLines DEF BatchStep
  <2> QED BY <2>1 DEF BatchClose, BatchStart
<1>4. ASSUME batch.ok, line = Garbled
      PROVE  BatchStep(batch, line) = BatchFail(batch)
  <2>1. BatchStep(batch, line) = BatchProperty(batch, line)
    BY <1>4, CardLines DEF BatchStep
  <2>2. BatchProperty(batch, line) = BatchFail(batch)
    BY <1>4 DEF BatchProperty
  <2> QED BY <2>1, <2>2
<1>5. ASSUME batch.ok, line \in PropertyLines
      PROVE  BatchStep(batch, line) =
              IF ~batch.open
              THEN BatchFail(batch)
              ELSE IF BatchName(line) = "VERSION"
                   THEN IF batch.version # NoValue
                        THEN BatchFail(batch)
                        ELSE [batch EXCEPT !.version = line.value]
                   ELSE [batch EXCEPT !.card = Store(@, line, BatchName(line))]
  <2>1. line # Begin /\ line # EndCard /\ line # Garbled
    BY <1>5, CardLines
  <2>2. BatchStep(batch, line) = BatchProperty(batch, line)
    BY <1>5, <2>1 DEF BatchStep
  <2> QED BY <2>1, <2>2 DEF BatchProperty
<1> QED BY <1>1, <1>2, <1>3, <1>4, <1>5

LEMMA BatchFields ==
  ASSUME BatchTyped, NEW x
  PROVE  /\ [batch EXCEPT !.ok = x] =
              [ok |-> x, open |-> batch.open, card |-> batch.card,
               version |-> batch.version, cards |-> batch.cards]
         /\ [batch EXCEPT !.version = x] =
              [ok |-> batch.ok, open |-> batch.open, card |-> batch.card,
               version |-> x, cards |-> batch.cards]
         /\ [batch EXCEPT !.card = x] =
              [ok |-> batch.ok, open |-> batch.open, card |-> x,
               version |-> batch.version, cards |-> batch.cards]
<1>1. ASSUME NEW ok, NEW open, NEW c, NEW v, NEW cards
      PROVE  LET b == [ok |-> ok, open |-> open, card |-> c, version |-> v, cards |-> cards]
             IN  [b EXCEPT !.ok = x] =
                   [ok |-> x, open |-> open, card |-> c, version |-> v, cards |-> cards]
  OBVIOUS
<1>2. ASSUME NEW ok, NEW open, NEW c, NEW v, NEW cards
      PROVE  LET b == [ok |-> ok, open |-> open, card |-> c, version |-> v, cards |-> cards]
             IN  [b EXCEPT !.version = x] =
                   [ok |-> ok, open |-> open, card |-> c, version |-> x, cards |-> cards]
  OBVIOUS
<1>3. ASSUME NEW ok, NEW open, NEW c, NEW v, NEW cards
      PROVE  LET b == [ok |-> ok, open |-> open, card |-> c, version |-> v, cards |-> cards]
             IN  [b EXCEPT !.card = x] =
                   [ok |-> ok, open |-> open, card |-> x, version |-> v, cards |-> cards]
  OBVIOUS
<1>4. batch = [ok |-> batch.ok, open |-> batch.open, card |-> batch.card,
               version |-> batch.version, cards |-> batch.cards]
  BY DEF BatchTyped
<1>5. [batch EXCEPT !.ok = x] = [ok |-> x, open |-> batch.open, card |-> batch.card,
                                 version |-> batch.version, cards |-> batch.cards]
  BY <1>1, <1>4
<1>6. [batch EXCEPT !.version = x] =
        [ok |-> batch.ok, open |-> batch.open, card |-> batch.card,
         version |-> x, cards |-> batch.cards]
  BY <1>2, <1>4
<1>7. [batch EXCEPT !.card = x] =
        [ok |-> batch.ok, open |-> batch.open, card |-> x,
         version |-> batch.version, cards |-> batch.cards]
  BY <1>3, <1>4
<1> QED BY <1>5, <1>6, <1>7

\* Records of that kind are what BatchTyped asks for.
LEMMA BatchRecord ==
  ASSUME NEW ok \in BOOLEAN, NEW open \in BOOLEAN, NEW c, NEW v, NEW cards,
         batch' = [ok |-> ok, open |-> open, card |-> c, version |-> v, cards |-> cards]
  PROVE  /\ BatchTyped' /\ batch'.ok = ok /\ batch'.open = open /\ batch'.card = c
         /\ batch'.version = v /\ batch'.cards = cards
BY DEF BatchTyped

LEMMA BatchFails ==
  ASSUME BatchTyped, batch' = BatchFail(batch)
  PROVE  BatchTyped' /\ ~batch'.ok
<1>1. batch' = [ok |-> FALSE, open |-> batch.open, card |-> batch.card,
                version |-> batch.version, cards |-> batch.cards]
  <2>1. batch' = [batch EXCEPT !.ok = FALSE]
    BY DEF BatchFail
  <2> QED BY <2>1, BatchFields
<1>2. batch.open \in BOOLEAN
  BY DEF BatchTyped
<1> QED BY <1>1, <1>2, BatchRecord

\* Both parsers report an error, in this step or in an earlier one.
LEMMA AgreeOnError ==
  ASSUME AgreeInv, input' \in Seq(Lines), pc' \in {"idle", "outside", "inside"},
         failed' = TRUE, \/ batch' = batch /\ ~batch.ok
                         \/ batch' = BatchFail(batch)
  PROVE  AgreeInv'
<1>1. BatchTyped' /\ ~batch'.ok
  <2>1. CASE batch' = batch /\ ~batch.ok
    BY <2>1 DEF AgreeInv, BatchTyped
  <2>2. CASE batch' = BatchFail(batch)
    BY <2>2, BatchFails DEF AgreeInv
  <2> QED BY <2>1, <2>2
<1> QED BY <1>1 DEF AgreeInv

\* What a line is to the batch parser after an earlier error: nothing.
LEMMA AgreeAfterError ==
  ASSUME AgreeInv, failed, NEW line \in Lines, Deliver(line), failed' = TRUE,
         pc' \in {"idle", "outside", "inside"}
  PROVE  AgreeInv'
<1>1. /\ input' \in Seq(Lines) /\ batch' = BatchStep(batch, line)
      /\ BatchTyped /\ ~batch.ok
  BY InputGrows DEF AgreeInv
<1>2. batch' = batch
  BY <1>1, BatchStepIs
<1> QED BY <1>1, <1>2, AgreeOnError

\* Both parsers take the line for what it is.
LEMMA AgreeOnLine ==
  ASSUME AgreeInv, input' \in Seq(Lines), failed' = FALSE,
         pc' \in {"idle", "outside", "inside"},
         NEW open \in BOOLEAN, open <=> pc' = "inside",
         NEW c, NEW v, NEW cards,
         batch' = [ok |-> TRUE, open |-> open, card |-> c, version |-> v, cards |-> cards],
         open => v = version',
         Ungrouped' => cards = yielded' /\ (open => c = card')
  PROVE  AgreeInv'
<1>1. /\ BatchTyped' /\ batch'.ok /\ batch'.open = open /\ batch'.card = c
      /\ batch'.version = v /\ batch'.cards = cards
  BY BatchRecord
<1>2. InStepWithBatch'
  BY <1>1 DEF InStepWithBatch
<1> QED BY <1>1, <1>2 DEF AgreeInv

LEMMA AgreeBegin == AgreeInv /\ ReadBegin => AgreeInv'
<1> SUFFICES ASSUME AgreeInv, ReadBegin PROVE AgreeInv'
  OBVIOUS
<1>1. /\ Deliver(Begin) /\ pc = "outside" /\ pc' = "inside" /\ card' = EmptyCard
      /\ version' = NoValue /\ UNCHANGED <<result, yielded, failed>>
  BY DEF ReadBegin
<1>2. CASE failed
  <2>1. Begin \in Lines /\ failed' = TRUE
    BY <1>1, <1>2, CardLines DEF AgreeInv
  <2> QED BY <1>1, <1>2, <2>1, AgreeAfterError
<1>3. CASE ~failed
  <2>1. Begin \in Lines
    BY CardLines
  <2>2. /\ input' \in Seq(Lines) /\ batch' = BatchStep(batch, Begin)
        /\ BatchTyped /\ batch.ok /\ ~batch.open
        /\ Ungrouped' => Ungrouped
        /\ Ungrouped => batch.cards = yielded
    BY <1>1, <1>3, <2>1, InputGrows DEF AgreeInv, InStepWithBatch
  <2>3. batch' = [ok |-> TRUE, open |-> TRUE, card |-> EmptyCard,
                  version |-> NoValue, cards |-> batch.cards]
    BY <2>1, <2>2, BatchStepIs
  <2>4. failed' = FALSE
    BY <1>1, <1>3 DEF AgreeInv
  <2> QED BY <1>1, <2>2, <2>3, <2>4, AgreeOnLine
<1> QED BY <1>2, <1>3

LEMMA AgreeStray == AgreeInv /\ ReadStray => AgreeInv'
<1> SUFFICES ASSUME AgreeInv, ReadStray PROVE AgreeInv'
  OBVIOUS
<1>1. PICK line \in Lines \ {Begin} : Deliver(line)
  BY DEF ReadStray
<1>2. pc = "outside" /\ pc' = "idle" /\ failed' = TRUE
  BY DEF ReadStray, Fail
<1>3. CASE failed
  BY <1>1, <1>2, <1>3, AgreeAfterError
<1>4. CASE ~failed
  <2>1. /\ input' \in Seq(Lines) /\ batch' = BatchStep(batch, line)
        /\ BatchTyped /\ batch.ok /\ ~batch.open
    BY <1>1, <1>2, <1>4, InputGrows DEF AgreeInv, InStepWithBatch
  <2>2. line = EndCard \/ line = Garbled \/ line \in PropertyLines
    BY <1>1, CardLines
  <2>3. batch' = BatchFail(batch)
    BY <1>1, <2>1, <2>2, BatchStepIs
  <2> QED BY <1>2, <2>1, <2>3, AgreeOnError
<1> QED BY <1>3, <1>4

LEMMA AgreeNestedOrGarbled == AgreeInv /\ ReadNestedOrGarbled => AgreeInv'
<1> SUFFICES ASSUME AgreeInv, ReadNestedOrGarbled PROVE AgreeInv'
  OBVIOUS
<1>1. PICK line \in {Begin, Garbled} : Deliver(line)
  BY DEF ReadNestedOrGarbled
<1>2. pc = "inside" /\ pc' = "idle" /\ failed' = TRUE
  BY DEF ReadNestedOrGarbled, Fail
<1>3. line \in Lines
  BY CardLines
<1>4. CASE failed
  BY <1>1, <1>2, <1>3, <1>4, AgreeAfterError
<1>5. CASE ~failed
  <2>1. /\ input' \in Seq(Lines) /\ batch' = BatchStep(batch, line)
        /\ BatchTyped /\ batch.ok /\ batch.open
    BY <1>1, <1>2, <1>3, <1>5, InputGrows DEF AgreeInv, InStepWithBatch
  <2>2. batch' = BatchFail(batch)
    BY <1>3, <2>1, BatchStepIs
  <2> QED BY <1>2, <2>1, <2>2, AgreeOnError
<1> QED BY <1>4, <1>5

\* A VERSION under its own name is one to both parsers; under a group it would
\* be one to the stream alone.
LEMMA AgreeProperty ==
  "VERSION" \notin GroupedNames /\ AgreeInv /\ ReadProperty => AgreeInv'
<1> SUFFICES ASSUME "VERSION" \notin GroupedNames, AgreeInv, ReadProperty PROVE AgreeInv'
  OBVIOUS
<1>1. PICK line \in PropertyLines :
        /\ Deliver(line)
        /\ IF StreamName(line) = "VERSION"
           THEN IF version # NoValue
                THEN Fail("malformed")
                ELSE /\ version' = line.value
                     /\ UNCHANGED <<pc, card, result, yielded, failed>>
           ELSE /\ card' = Store(card, line, StreamName(line))
                /\ UNCHANGED <<pc, version, result, yielded, failed>>
  BY DEF ReadProperty
<1>2. line \in Lines /\ pc = "inside"
  BY CardLines DEF ReadProperty
<1>3. pc' \in {"inside", "idle"} /\ (failed => failed' = TRUE)
  BY <1>1, <1>2 DEF Fail, AgreeInv
<1>4. CASE failed
  BY <1>1, <1>2, <1>3, <1>4, AgreeAfterError
<1>5. CASE ~failed
  <2>1. /\ input' \in Seq(Lines) /\ batch' = BatchStep(batch, line)
        /\ BatchTyped /\ batch.ok /\ batch.open /\ batch.version = version
    BY <1>1, <1>2, <1>5, InputGrows DEF AgreeInv, InStepWithBatch
  <2>2. /\ Ungrouped' => Ungrouped /\ ~line.grouped
        /\ Ungrouped => batch.cards = yielded /\ batch.card = card
    BY <1>1, <1>2, <1>5, <2>1, InputGrows DEF AgreeInv, InStepWithBatch
  <2>3. batch' = IF BatchName(line) = "VERSION"
                 THEN IF batch.version # NoValue
                      THEN BatchFail(batch)
                      ELSE [batch EXCEPT !.version = line.value]
                 ELSE [batch EXCEPT !.card = Store(@, line, BatchName(line))]
    BY <1>2, <2>1, BatchStepIs
  <2>4. /\ BatchName(line) = "VERSION" <=> line.name = "VERSION"
        /\ ~line.grouped => BatchName(line) = line.name
        /\ StreamName(line) = line.name
    BY CardLines DEF BatchName, StreamName
  <2>5. CASE line.name = "VERSION" /\ version # NoValue
    <3>1. batch' = BatchFail(batch)
      BY <2>1, <2>3, <2>4, <2>5
    <3>2. failed' = TRUE
      BY <1>1, <2>4, <2>5 DEF Fail
    <3> QED BY <1>3, <2>1, <3>1, <3>2, AgreeOnError
  <2>6. CASE line.name = "VERSION" /\ version = NoValue
    <3>1. batch' = [batch EXCEPT !.version = line.value]
      BY <2>1, <2>3, <2>4, <2>6
    <3>2. batch' = [ok |-> TRUE, open |-> TRUE, card |-> batch.card,
                    version |-> line.value, cards |-> batch.cards]
      BY <2>1, <3>1, BatchFields DEF BatchTyped
    <3>3. /\ version' = line.value /\ UNCHANGED <<pc, card, result, yielded, failed>>
      BY <1>1, <2>4, <2>6
    <3>4. failed' = FALSE
      BY <1>5, <3>3 DEF AgreeInv
    <3> QED BY <1>2, <2>1, <2>2, <3>2, <3>3, <3>4, AgreeOnLine
  <2>7. CASE line.name # "VERSION"
    <3> DEFINE stored == Store(batch.card, line, BatchName(line))
    <3>1. batch' = [batch EXCEPT !.card = stored]
      BY <2>1, <2>3, <2>4, <2>7
    <3> HIDE DEF stored
    <3>2. batch' = [ok |-> TRUE, open |-> TRUE, card |-> stored,
                    version |-> batch.version, cards |-> batch.cards]
      BY <2>1, <3>1, BatchFields DEF BatchTyped
    <3>3. /\ card' = Store(card, line, line.name)
          /\ UNCHANGED <<pc, version, result, yielded, failed>>
      BY <1>1, <2>4, <2>7
    <3>4. failed' = FALSE
      BY <1>5, <3>3 DEF AgreeInv
    <3>5. Ungrouped' => batch.cards = yielded' /\ stored = card'
      BY <2>2, <2>4, <3>3 DEF stored
    <3> QED BY <1>2, <2>1, <3>2, <3>3, <3>4, <3>5, AgreeOnLine
  <2> QED BY <2>5, <2>6, <2>7
<1> QED BY <1>4, <1>5

LEMMA AgreeEnd == AgreeInv /\ ReadEnd => AgreeInv'
<1> SUFFICES ASSUME AgreeInv, ReadEnd PROVE AgreeInv'
  OBVIOUS
<1>1. Deliver(EndCard) /\ pc = "inside" /\ EndCard \in Lines
  BY CardLines DEF ReadEnd
<1>2. \/ version = Supported /\ pc' = "idle" /\ yielded' = Append(yielded, card)
         /\ UNCHANGED <<card, version, failed>>
      \/ version # Supported /\ pc' = "idle" /\ failed' = TRUE
  BY CardAssumption DEF ReadEnd, Fail
<1>3. pc' \in {"idle", "outside", "inside"} /\ (failed => failed' = TRUE)
  BY <1>2 DEF AgreeInv
<1>4. CASE failed
  BY <1>1, <1>3, <1>4, AgreeAfterError
<1>5. CASE ~failed
  <2>1. /\ input' \in Seq(Lines) /\ batch' = BatchStep(batch, EndCard)
        /\ BatchTyped /\ batch.ok /\ batch.open /\ batch.version = version
    BY <1>1, <1>5, InputGrows DEF AgreeInv, InStepWithBatch
  <2>2. /\ Ungrouped' => Ungrouped
        /\ Ungrouped => batch.cards = yielded /\ batch.card = card
    BY <1>1, <1>5, <2>1, InputGrows DEF AgreeInv, InStepWithBatch
  <2>3. CASE version = Supported
    <3> DEFINE grown == Append(batch.cards, batch.card)
    <3>1. batch' = [ok |-> TRUE, open |-> FALSE, card |-> EmptyCard,
                    version |-> NoValue, cards |-> grown]
      BY <1>1, <2>1, <2>3, BatchStepIs
    <3>2. pc' = "idle" /\ yielded' = Append(yielded, card) /\ failed' = FALSE
      BY <1>2, <1>5, <2>3 DEF AgreeInv
    <3>3. Ungrouped' => grown = yielded'
      BY <2>2, <3>2
    <3> HIDE DEF grown
    <3> QED BY <2>1, <3>1, <3>2, <3>3, AgreeOnLine
  <2>4. CASE version # Supported
    <3>1. batch' = BatchFail(batch)
      BY <1>1, <2>1, <2>4, BatchStepIs
    <3> QED BY <1>2, <2>1, <2>4, <3>1, AgreeOnError
  <2> QED BY <2>3, <2>4
<1> QED BY <1>4, <1>5

LEMMA AgreeEOF == AgreeInv /\ ReadEOF => AgreeInv'
<1> SUFFICES ASSUME AgreeInv, ReadEOF PROVE AgreeInv'
  OBVIOUS
<1>1. /\ pc # "idle" /\ batch' = BatchEOF(batch) /\ input' = input /\ input' \in Seq(Lines)
      /\ pc' = "idle" /\ BatchTyped
  BY DEF ReadEOF, Fail, AgreeInv
<1>2. \/ pc = "outside" /\ UNCHANGED <<card, version, yielded, failed>>
      \/ pc = "inside" /\ failed' = TRUE
  BY <1>1 DEF ReadEOF, Fail, AgreeInv
<1>3. batch' = batch \/ batch' = BatchFail(batch)
  BY <1>1 DEF BatchEOF
<1>4. CASE failed
  <2>1. ~batch.ok /\ failed' = TRUE
    BY <1>2, <1>4 DEF AgreeInv
  <2> QED BY <1>1, <1>3, <2>1, AgreeOnError
<1>5. CASE ~failed /\ pc = "inside"
  <2>1. batch.open
    BY <1>5 DEF AgreeInv, InStepWithBatch
  <2>2. batch' = BatchFail(batch) /\ failed' = TRUE
    BY <1>1, <1>2, <1>5, <2>1 DEF BatchEOF
  <2> QED BY <1>1, <2>2, AgreeOnError
<1>6. CASE ~failed /\ pc = "outside"
  <2>1. ~batch.open
    BY <1>6 DEF AgreeInv, InStepWithBatch
  <2>2. batch' = batch /\ UNCHANGED <<card, version, yielded, failed, input>>
    BY <1>1, <1>2, <1>6, <2>1 DEF BatchEOF
  <2>3. (Ungrouped' <=> Ungrouped) /\ (BatchTyped' <=> BatchTyped)
    BY <2>2 DEF Ungrouped, BatchTyped
  <2>4. InStepWithBatch'
    BY <1>1, <1>6, <2>1, <2>2, <2>3 DEF AgreeInv, InStepWithBatch
  <2> QED BY <1>1, <1>6, <2>2, <2>3, <2>4 DEF AgreeInv
<1> QED BY <1>1, <1>4, <1>5, <1>6 DEF AgreeInv

\* A failure of the reader is an error of both.
LEMMA AgreeReadError == AgreeInv /\ ReadError => AgreeInv'
<1> SUFFICES ASSUME AgreeInv, ReadError PROVE AgreeInv'
  OBVIOUS
<1>1. /\ batch' = BatchFail(batch) /\ input' = input /\ failed' = TRUE /\ pc' = "idle"
      /\ input \in Seq(Lines)
  BY DEF ReadError, Fail, AgreeInv
<1> QED BY <1>1, AgreeOnError

\* Nothing but the reader's own steps touches the two parsers.
LEMMA AgreeUnread ==
  ASSUME AgreeInv, UNCHANGED <<card, version, yielded, failed, input, batch>>,
         pc' = pc \/ (pc = "idle" /\ pc' = "outside")
  PROVE  AgreeInv'
<1>1. (Ungrouped' <=> Ungrouped) /\ (BatchTyped' <=> BatchTyped)
  BY DEF Ungrouped, BatchTyped
<1>2. InStepWithBatch => InStepWithBatch'
  BY <1>1 DEF InStepWithBatch
<1> QED BY <1>1, <1>2 DEF AgreeInv

LEMMA AgreeStep ==
  "VERSION" \notin GroupedNames /\ AgreeInv /\ [ExNext]_exVars => AgreeInv'
<1> SUFFICES ASSUME "VERSION" \notin GroupedNames, AgreeInv, [ExNext]_exVars PROVE AgreeInv'
  OBVIOUS
<1>1. CASE ReadLine
  <2>1. Read
    BY <1>1 DEF ReadLine
  <2> QED BY <2>1, AgreeBegin, AgreeStray, AgreeProperty, AgreeNestedOrGarbled,
             AgreeEnd, AgreeEOF, AgreeReadError DEF Read
<1>2. CASE NextCall
  BY <1>2, AgreeUnread DEF NextCall, Call, reading
<1>3. CASE Write
  BY <1>3, AgreeUnread DEF Write, vars, parser, reading
<1>4. CASE Stop
  BY <1>4, AgreeUnread DEF Stop, parser, reading
<1>5. CASE UNCHANGED exVars
  BY <1>5, AgreeUnread DEF exVars, vars, parser, reading
<1> QED BY <1>1, <1>2, <1>3, <1>4, <1>5 DEF ExNext

LEMMA AgreeInit == ExInit => AgreeInv
<1> SUFFICES ASSUME ExInit PROVE AgreeInv
  OBVIOUS
<1>1. /\ pc = "idle" /\ card = EmptyCard /\ version = NoValue /\ yielded = <<>>
      /\ failed = FALSE /\ input = <<>> /\ batch = BatchStart
  BY DEF ExInit, Start
<1>2. /\ batch = [ok |-> TRUE, open |-> FALSE, card |-> EmptyCard,
                  version |-> NoValue, cards |-> <<>>]
  BY <1>1 DEF BatchStart
<1>3. /\ BatchTyped /\ batch.ok /\ ~batch.open /\ batch.cards = <<>>
  BY <1>2 DEF BatchTyped
<1>4. <<>> \in Seq(Lines)
  OBVIOUS
<1> QED BY <1>1, <1>3, <1>4 DEF AgreeInv, InStepWithBatch

\* Until a call fails, and as long as no line carries a group, the streaming
\* parser and the batch parser hold the same cards and the same open card, and
\* every error of the stream is one of the batch parser.  A grouped VERSION is
\* a version to the stream alone, and a second one an error to it alone: where
\* callers may group VERSION, the second half of this is false.
THEOREM StreamAgreesWithBatch ==
  ASSUME "VERSION" \notin GroupedNames
  PROVE  ExSpec => []CardsAgreeWithBatch
<1>1. AgreeInv /\ [ExNext]_exVars => AgreeInv'
  BY AgreeStep
<1>2. AgreeInv => CardsAgreeWithBatch
  BY DEF AgreeInv, InStepWithBatch, Ungrouped, CardsAgreeWithBatch
<1> QED BY AgreeInit, <1>1, <1>2, PTL DEF ExSpec

-----------------------------------------------------------------------------
(* Cards with nothing wrong in them. *)

\* The last UID among the lines from lo to hi.
UidBetween(in, lo, hi) ==
  LET at == {k \in lo..hi : in[k].name = "UID"} IN
  IF at = {} THEN NoValue ELSE in[CHOOSE k \in at : \A m \in at : m <= k].value

\* The lines end inside a block that began at i, at the start or behind some
\* END, with nothing but properties and no failure of the reader, and v alone,
\* or none (0), is its VERSION.
OpenBlock(in, fs, i, v) ==
  /\ i \in 1..Len(in) /\ v \in 0..Len(in)
  /\ in[i] = Begin /\ (i = 1 \/ in[i - 1] = EndCard)
  /\ v = 0 \/ i < v
  /\ \A k \in i + 1..Len(in) :
       in[k] \in PropertyLines /\ (in[k].name = "VERSION" <=> k = v)
  /\ \A f \in DOMAIN fs : fs[f] \notin i..Len(in)

VersionAt(in, v) == IF v = 0 THEN NoValue ELSE in[v].value

CardTyped == card = [uid |-> card.uid, kind |-> card.kind, props |-> card.props]

\* A block that may yet become an intact one is the one the parser is in, with
\* what it said so far.
BlockIsRead ==
  \A i \in 1..Len(input), v \in 0..Len(input) :
    OpenBlock(input, failures, i, v) =>
      /\ pc = "inside"
      /\ version = VersionAt(input, v)
      /\ card.uid = UidBetween(input, i + 1, Len(input))

\* Behind an END, and at the start, the parser is in no card.
BetweenCards == input = <<>> \/ input[Len(input)] = EndCard => pc # "inside"

Survived ==
  /\ IsFiniteSet(IntactBlocks)
  /\ Cardinality(IntactBlocks) <= Len(yielded)
  /\ \A b \in IntactBlocks :
       \E n \in DOMAIN yielded : yielded[n].uid = UidBetween(input, b[1] + 1, b[2] - 1)

SurviveInv ==
  /\ input \in Seq(Lines) /\ failures \in Seq(Nat) /\ IsSeq(yielded) /\ CardTyped
  /\ pc \in {"idle", "outside", "inside"}
  /\ ~eof => BlockIsRead /\ BetweenCards
  /\ Survived

LEMMA UidKept ==
  ASSUME NEW f, NEW g, NEW lo \in Nat, lo > 0, NEW hi \in Int, \A k \in lo..hi : f[k] = g[k]
  PROVE  UidBetween(f, lo, hi) = UidBetween(g, lo, hi)
<1> DEFINE at == {k \in lo..hi : f[k].name = "UID"}
<1>1. at = {k \in lo..hi : g[k].name = "UID"}
  OBVIOUS
<1>2. CASE at = {}
  BY <1>1, <1>2 DEF UidBetween
<1>3. CASE at # {}
  <2>1. hi \in Nat /\ at \in SUBSET (1..hi)
    BY <1>3
  <2>2. \E x \in at : \A y \in at : y <= x
    BY <1>3, <2>1, GreatestUpTo
  <2> DEFINE last == CHOOSE k \in at : \A m \in at : m <= k
  <2>3. last \in at
    BY <2>2
  <2>4. f[last] = g[last]
    BY <2>3
  <2>5. UidBetween(f, lo, hi) = f[last].value /\ UidBetween(g, lo, hi) = g[last].value
    BY <1>1, <1>3 DEF UidBetween
  <2> QED BY <2>4, <2>5
<1> QED BY <1>2, <1>3

LEMMA UidNext ==
  ASSUME NEW f, NEW lo \in Nat, NEW hi \in Nat, lo <= hi + 1
  PROVE  UidBetween(f, lo, hi + 1) =
           IF f[hi + 1].name = "UID" THEN f[hi + 1].value ELSE UidBetween(f, lo, hi)
<1> DEFINE at == {k \in lo..hi + 1 : f[k].name = "UID"}
<1>1. CASE f[hi + 1].name = "UID"
  <2>1. hi + 1 \in at /\ \A m \in at : m <= hi + 1
    BY <1>1
  <2> DEFINE last == CHOOSE k \in at : \A m \in at : m <= k
  <2>2. last \in at /\ \A m \in at : m <= last
    BY <2>1
  <2>3. last = hi + 1
    BY <2>1, <2>2
  <2>4. UidBetween(f, lo, hi + 1) = f[last].value
    BY <2>1 DEF UidBetween
  <2> QED BY <1>1, <2>3, <2>4
<1>2. CASE f[hi + 1].name # "UID"
  <2>1. at = {k \in lo..hi : f[k].name = "UID"}
    BY <1>2
  <2> DEFINE was == {k \in lo..hi : f[k].name = "UID"}
  <2>2. UidBetween(f, lo, hi + 1) =
          IF at = {} THEN NoValue ELSE f[CHOOSE k \in at : \A m \in at : m <= k].value
    BY DEF UidBetween
  <2>3. UidBetween(f, lo, hi) =
          IF was = {} THEN NoValue ELSE f[CHOOSE k \in was : \A m \in was : m <= k].value
    BY DEF UidBetween
  <2>4. at = was
    BY <2>1
  <2> HIDE DEF at, was
  <2>5. UidBetween(f, lo, hi + 1) = UidBetween(f, lo, hi)
    BY <2>2, <2>3, <2>4
  <2> QED BY <1>2, <2>5
<1> QED BY <1>1, <1>2

LEMMA UidNone ==
  ASSUME NEW f, NEW lo \in Nat
  PROVE  UidBetween(f, lo + 1, lo) = NoValue
<1>1. {k \in lo + 1..lo : f[k].name = "UID"} = {}
  OBVIOUS
<1> QED BY <1>1 DEF UidBetween

\* An open block goes on, and begins, as the line that came last says.
LEMMA OpenBlockGrows ==
  ASSUME input \in Seq(Lines), NEW line \in Lines, Deliver(line),
         NEW i, NEW v, OpenBlock(input', failures', i, v)
  PROVE  \/ /\ line = Begin /\ i = Len(input) + 1 /\ v = 0
            /\ input = <<>> \/ input[Len(input)] = EndCard
         \/ /\ line \in PropertyLines /\ i \in 1..Len(input)
            /\ line.name = "VERSION" <=> v = Len(input) + 1
            /\ line.name = "VERSION" => OpenBlock(input, failures, i, 0)
            /\ line.name # "VERSION" => v \in 0..Len(input) /\ OpenBlock(input, failures, i, v)
<1>1. /\ input' \in Seq(Lines) /\ Len(input') = Len(input) + 1 /\ Len(input) \in Nat
      /\ \A k \in 1..Len(input) : input'[k] = input[k]
      /\ input'[Len(input) + 1] = line
  BY InputGrows
<1> DEFINE n == Len(input)
<1>2. /\ i \in 1..n + 1 /\ v \in 0..n + 1 /\ input'[i] = Begin
      /\ i = 1 \/ input'[i - 1] = EndCard
      /\ v = 0 \/ i < v
      /\ \A k \in i + 1..n + 1 :
           input'[k] \in PropertyLines /\ (input'[k].name = "VERSION" <=> k = v)
      /\ \A f \in DOMAIN failures : failures[f] \notin i..n + 1
  BY <1>1, InputGrows DEF OpenBlock
<1>3. n \in Nat /\ \A k \in 1..n : input'[k] = input[k]
  BY <1>1
<1>4. input'[n + 1] = line
  BY <1>1
<1>5. n = 0 => input = <<>>
  BY EmptySeq
<1> HIDE DEF n
<1>6. CASE i = n + 1
  <2>1. line = Begin /\ v = 0
    BY <1>2, <1>3, <1>4, <1>6
  <2>2. n = 0 \/ input[n] = EndCard
    <3>1. CASE n # 0
      <4>1. i # 1 /\ i - 1 = n /\ n \in 1..n
        BY <1>3, <1>6, <3>1
      <4> QED BY <1>2, <1>3, <4>1
    <3> QED BY <3>1
  <2> QED BY <1>5, <1>6, <2>1, <2>2 DEF n
<1>7. CASE i \in 1..n
  <2>1. n + 1 \in i + 1..n + 1
    BY <1>3, <1>7
  <2>2. line \in PropertyLines /\ (line.name = "VERSION" <=> v = n + 1)
    BY <1>2, <1>4, <2>1
  <2>3. input[i] = Begin /\ (i = 1 \/ input[i - 1] = EndCard)
    <3>1. input[i] = Begin
      BY <1>2, <1>3, <1>7
    <3>2. CASE i # 1
      <4>1. i - 1 \in 1..n
        BY <1>3, <1>7, <3>2
      <4> QED BY <1>2, <1>3, <3>1, <3>2, <4>1
    <3> QED BY <3>1, <3>2
  <2>4. \A k \in i + 1..n :
          input[k] \in PropertyLines /\ (input[k].name = "VERSION" <=> k = v)
    <3>1. \A k \in i + 1..n : k \in i + 1..n + 1 /\ k \in 1..n
      BY <1>3, <1>7
    <3> QED BY <1>2, <1>3, <3>1
  <2>7. \A f \in DOMAIN failures : failures[f] \notin i..n
    <3>1. \A k \in i..n : k \in i..n + 1
      BY <1>3, <1>7
    <3> QED BY <1>2, <3>1
  <2>5. ASSUME line.name = "VERSION" PROVE OpenBlock(input, failures, i, 0)
    <3>1. \A k \in i + 1..n : k # v /\ k # 0
      BY <1>3, <1>7, <2>2, <2>5
    <3>2. 0 \in 0..n
      BY <1>3
    <3> QED BY <1>7, <2>3, <2>4, <2>7, <3>1, <3>2 DEF OpenBlock, n
  <2>6. ASSUME line.name # "VERSION" PROVE v \in 0..n /\ OpenBlock(input, failures, i, v)
    <3>1. v \in 0..n
      BY <1>2, <1>3, <2>2, <2>6
    <3> QED BY <1>2, <1>7, <2>3, <2>4, <2>7, <3>1 DEF OpenBlock, n
  <2> QED BY <1>7, <2>2, <2>5, <2>6 DEF n
<1> QED BY <1>2, <1>3, <1>6, <1>7

\* The intact blocks of a sequence of lines, with the first and last line of each.
LEMMA IntactBlockIs ==
  ASSUME NEW i, NEW j
  PROVE  /\ <<i, j>> \in IntactBlocks <=>
              /\ i \in DOMAIN input /\ j \in DOMAIN input /\ i < j
              /\ i = 1 \/ input[i - 1] = EndCard
              /\ input[i] = Begin /\ input[j] = EndCard
              /\ \A k \in i + 1..j - 1 : input[k] \in PropertyLines
              /\ \E k \in i + 1..j - 1 :
                   /\ input[k].value = Supported
                   /\ \A m \in i + 1..j - 1 : input[m].name = "VERSION" <=> m = k
              /\ \A f \in DOMAIN failures : failures[f] \notin i..j - 1
         /\ (<<i, j>> \in IntactBlocks)' <=>
              /\ i \in DOMAIN input' /\ j \in DOMAIN input' /\ i < j
              /\ i = 1 \/ input'[i - 1] = EndCard
              /\ input'[i] = Begin /\ input'[j] = EndCard
              /\ \A k \in i + 1..j - 1 : input'[k] \in PropertyLines
              /\ \E k \in i + 1..j - 1 :
                   /\ input'[k].value = Supported
                   /\ \A m \in i + 1..j - 1 : input'[m].name = "VERSION" <=> m = k
              /\ \A f \in DOMAIN failures' : failures'[f] \notin i..j - 1
BY DEF IntactBlocks, Intact

LEMMA IntactBlockPair ==
  /\ \A b \in IntactBlocks : b = <<b[1], b[2]>>
  /\ \A b \in IntactBlocks' : b = <<b[1], b[2]>>
BY DEF IntactBlocks

\* A new intact block ends with the line that came last, and was open before.
LEMMA BlocksGrow ==
  ASSUME input \in Seq(Lines), NEW line \in Lines, Deliver(line),
         NEW i, NEW j, (<<i, j>> \in IntactBlocks)'
  PROVE  \/ <<i, j>> \in IntactBlocks /\ i \in 1..Len(input) /\ j \in 1..Len(input)
         \/ /\ line = EndCard /\ i \in 1..Len(input) /\ j = Len(input) + 1
            /\ \E v \in 1..Len(input) : OpenBlock(input, failures, i, v) /\ input[v].value = Supported
<1> DEFINE n == Len(input)
<1>1. /\ n \in Nat /\ DOMAIN input = 1..n /\ DOMAIN input' = 1..n + 1
      /\ \A k \in 1..n : input'[k] = input[k]
      /\ input'[n + 1] = line
  BY InputGrows
<1> HIDE DEF n
<1>2. /\ i \in 1..n + 1 /\ j \in 1..n + 1 /\ i < j
      /\ i = 1 \/ input'[i - 1] = EndCard
      /\ input'[i] = Begin /\ input'[j] = EndCard
      /\ \A k \in i + 1..j - 1 : input'[k] \in PropertyLines
      /\ \A f \in DOMAIN failures : failures[f] \notin i..j - 1
  BY <1>1, IntactBlockIs, InputGrows
<1>3. PICK v \in i + 1..j - 1 :
        /\ input'[v].value = Supported
        /\ \A m \in i + 1..j - 1 : input'[m].name = "VERSION" <=> m = v
  BY IntactBlockIs
<1>4. i \in 1..n /\ v \in 1..n /\ i < v /\ v < j /\ \A k \in i + 1..j - 1 : k \in 1..n
  BY <1>1, <1>2, <1>3
<1>5. i = 1 \/ input[i - 1] = EndCard
  <2>1. CASE i # 1
    <3>1. i - 1 \in 1..n
      BY <1>1, <1>4, <2>1
    <3> QED BY <1>1, <1>2, <2>1, <3>1
  <2> QED BY <2>1
<1>6. /\ input[i] = Begin /\ input[v].value = Supported
      /\ \A k \in i + 1..j - 1 :
           input[k] \in PropertyLines /\ (input[k].name = "VERSION" <=> k = v)
  <2>1. input[i] = Begin
    BY <1>1, <1>2, <1>4
  <2>2. input[v].value = Supported
    BY <1>1, <1>3, <1>4
  <2>3. ASSUME NEW k \in i + 1..j - 1
        PROVE  input[k] \in PropertyLines /\ (input[k].name = "VERSION" <=> k = v)
    <3>1. input'[k] = input[k]
      BY <1>1, <1>4
    <3> QED BY <1>2, <1>3, <3>1
  <2> QED BY <2>1, <2>2, <2>3
<1>7. CASE j = n + 1
  <2>1. j - 1 = n
    BY <1>1, <1>7
  <2>2. line = EndCard
    BY <1>1, <1>2, <1>7
  <2>3. v \in 0..n
    BY <1>1, <1>4
  <2>4. OpenBlock(input, failures, i, v)
    BY <1>2, <1>4, <1>5, <1>6, <2>1, <2>3 DEF OpenBlock, n
  <2> QED BY <1>4, <1>6, <1>7, <2>2, <2>4 DEF n
<1>8. CASE j # n + 1
  <2>1. j \in 1..n /\ input[j] = EndCard
    BY <1>1, <1>2, <1>8
  <2>2. v \in i + 1..j - 1
    BY <1>3
  <2>3. \E k \in i + 1..j - 1 :
          /\ input[k].value = Supported
          /\ \A m \in i + 1..j - 1 : input[m].name = "VERSION" <=> m = k
    BY <1>6, <2>2
  <2>4. i \in DOMAIN input /\ j \in DOMAIN input
    BY <1>1, <1>4, <2>1
  <2>5. \A k \in i + 1..j - 1 : input[k] \in PropertyLines
    BY <1>6
  <2>6. <<i, j>> \in IntactBlocks
    BY ONLY <1>2, <1>5, <1>6, <2>1, <2>3, <2>4, <2>5, IntactBlockIs
  <2> QED BY <1>4, <2>1, <2>6 DEF n
<1> QED BY <1>7, <1>8

\* Two blocks do not end with the same END: one would begin inside the other.
LEMMA OpenBlocksApart ==
  ASSUME input \in Seq(Lines), NEW i, NEW v, NEW k, NEW w,
         OpenBlock(input, failures, i, v), OpenBlock(input, failures, k, w)
  PROVE  i = k
<1>1. /\ i \in 1..Len(input) /\ k \in 1..Len(input) /\ Len(input) \in Nat
      /\ input[i] = Begin /\ input[k] = Begin
      /\ \A m \in i + 1..Len(input) : input[m] \in PropertyLines
      /\ \A m \in k + 1..Len(input) : input[m] \in PropertyLines
  BY LenProperties DEF OpenBlock
<1>2. ~(i < k)
  <2>1. ASSUME i < k PROVE k \in i + 1..Len(input)
    BY <1>1, <2>1
  <2> QED BY <1>1, <2>1, CardLines
<1>3. ~(k < i)
  <2>1. ASSUME k < i PROVE i \in k + 1..Len(input)
    BY <1>1, <2>1
  <2> QED BY <1>1, <2>1, CardLines
<1> QED BY <1>1, <1>2, <1>3

LEMMA SurvivedIs ==
  /\ Survived' <=>
       /\ IsFiniteSet(IntactBlocks')
       /\ Cardinality(IntactBlocks') <= Len(yielded')
       /\ \A b \in IntactBlocks' :
            \E n \in DOMAIN yielded' :
              yielded'[n].uid = UidBetween(input', b[1] + 1, b[2] - 1)
  /\ Survived => IntactCardsSurvive
<1>1. ASSUME NEW c, NEW i, NEW j
      PROVE  HasUidOf(c, i, j) <=> c.uid = UidBetween(input, i + 1, j - 1)
  BY DEF HasUidOf, UidBetween
<1> QED BY <1>1 DEF Survived, IntactCardsSurvive

\* What is among the cards stays there.
LEMMA SurvivorsStay ==
  ASSUME input \in Seq(Lines), IsSeq(yielded), Survived,
         NEW line \in Lines, Deliver(line),
         yielded' = yielded \/ \E c : yielded' = Append(yielded, c)
  PROVE  /\ IsSeq(yielded') /\ Len(yielded) <= Len(yielded')
         /\ \A i, j : <<i, j>> \in IntactBlocks
                        /\ i \in 1..Len(input) /\ j \in 1..Len(input) =>
              \E n \in DOMAIN yielded' :
                yielded'[n].uid = UidBetween(input', i + 1, j - 1)
<1>1. /\ IsSeq(yielded') /\ Len(yielded) <= Len(yielded')
      /\ DOMAIN yielded \subseteq DOMAIN yielded'
      /\ \A n \in DOMAIN yielded : yielded'[n] = yielded[n]
  <2>1. CASE yielded' = yielded
    BY <2>1, IsSeqProperties
  <2>2. CASE \E c : yielded' = Append(yielded, c)
    <3>1. PICK c : yielded' = Append(yielded, c)
      BY <2>2
    <3>2. /\ IsSeq(yielded') /\ Len(yielded') = Len(yielded) + 1
          /\ \A n \in 1..Len(yielded) : yielded'[n] = yielded[n]
      BY <3>1, IsSeqAppend
    <3>3. /\ Len(yielded) \in Nat /\ DOMAIN yielded = 1..Len(yielded)
          /\ DOMAIN yielded' = 1..Len(yielded')
      BY <3>2, IsSeqProperties
    <3> QED BY <3>2, <3>3
  <2> QED BY <2>1, <2>2
<1>2. ASSUME NEW i, NEW j, <<i, j>> \in IntactBlocks,
             i \in 1..Len(input), j \in 1..Len(input)
      PROVE  \E n \in DOMAIN yielded' :
               yielded'[n].uid = UidBetween(input', i + 1, j - 1)
  <2>1. PICK n \in DOMAIN yielded : yielded[n].uid = UidBetween(input, i + 1, j - 1)
    BY <1>2 DEF Survived
  <2>2. /\ Len(input) \in Nat /\ \A k \in 1..Len(input) : input'[k] = input[k]
    BY InputGrows
  <2>3. i + 1 \in Nat /\ i + 1 > 0 /\ j - 1 \in Int
    BY <1>2, <2>2
  <2>4. \A k \in i + 1..j - 1 : input'[k] = input[k]
    BY <1>2, <2>2
  <2>5. UidBetween(input', i + 1, j - 1) = UidBetween(input, i + 1, j - 1)
    BY <2>3, <2>4, UidKept
  <2> QED BY <1>1, <2>1, <2>5
<1> QED BY <1>1, <1>2

\* A line that ends no intact block costs none of them.
LEMMA SurvivedOther ==
  ASSUME input \in Seq(Lines), IsSeq(yielded), Survived,
         NEW line \in Lines, Deliver(line), yielded' = yielded,
         line # EndCard \/ \A i, v : ~OpenBlock(input, failures, i, v) \/ input[v].value # Supported
                                     \/ v = 0
  PROVE  Survived'
<1>1. ASSUME NEW i, NEW j, (<<i, j>> \in IntactBlocks)'
      PROVE  <<i, j>> \in IntactBlocks /\ i \in 1..Len(input) /\ j \in 1..Len(input)
  BY <1>1, BlocksGrow
<1>2. IntactBlocks' \in SUBSET IntactBlocks
  BY <1>1, IntactBlockPair
<1>3. IsFiniteSet(IntactBlocks') /\ Cardinality(IntactBlocks') <= Cardinality(IntactBlocks)
  BY <1>2, FS_Subset DEF Survived
<1>4. /\ Cardinality(IntactBlocks') \in Nat /\ Cardinality(IntactBlocks) \in Nat
      /\ Len(yielded) \in Nat
  BY <1>3, FS_CardinalityType, IsSeqProperties DEF Survived
<1>5. Cardinality(IntactBlocks') <= Len(yielded')
  BY <1>3, <1>4 DEF Survived
<1>6. ASSUME NEW b \in IntactBlocks'
      PROVE  \E n \in DOMAIN yielded' :
               yielded'[n].uid = UidBetween(input', b[1] + 1, b[2] - 1)
  <2>1. b = <<b[1], b[2]>>
    BY IntactBlockPair
  <2> QED BY <1>1, <2>1, SurvivorsStay
<1> QED BY <1>3, <1>5, <1>6, SurvivedIs

\* A line that ends one yields a card for it.
LEMMA SurvivedNew ==
  ASSUME input \in Seq(Lines), IsSeq(yielded), Survived,
         NEW line \in Lines, Deliver(line), NEW c, yielded' = Append(yielded, c),
         \A i \in 1..Len(input), v \in 0..Len(input) :
           OpenBlock(input, failures, i, v) => c.uid = UidBetween(input, i + 1, Len(input))
  PROVE  Survived'
<1> DEFINE n == Len(input)
           new == IntactBlocks' \ IntactBlocks
<1>1. /\ Len(yielded) \in Nat /\ Len(yielded') = Len(yielded) + 1
      /\ Len(yielded') \in DOMAIN yielded' /\ yielded'[Len(yielded')] = c
  <2>1. /\ IsSeq(yielded') /\ Len(yielded') = Len(yielded) + 1
        /\ yielded'[Len(yielded) + 1] = c
    BY IsSeqAppend
  <2>2. Len(yielded) \in Nat /\ DOMAIN yielded' = 1..Len(yielded')
    BY <2>1, IsSeqProperties
  <2> QED BY <2>1, <2>2
<1>2. n \in Nat /\ \A k \in 1..n : input'[k] = input[k]
  BY InputGrows
<1>3. ASSUME NEW b \in IntactBlocks'
      PROVE  \/ /\ b \in IntactBlocks /\ b = <<b[1], b[2]>>
                /\ b[1] \in 1..n /\ b[2] \in 1..n
             \/ /\ b = <<b[1], n + 1>> /\ b[2] = n + 1 /\ b[1] \in 1..n
                /\ \E v \in 1..n : OpenBlock(input, failures, b[1], v)
  <2>1. b = <<b[1], b[2]>>
    BY IntactBlockPair
  <2>2. (<<b[1], b[2]>> \in IntactBlocks)'
    BY <2>1
  <2>3. \/ <<b[1], b[2]>> \in IntactBlocks /\ b[1] \in 1..n /\ b[2] \in 1..n
        \/ /\ b[1] \in 1..n /\ b[2] = n + 1
           /\ \E v \in 1..n : OpenBlock(input, failures, b[1], v)
    BY <2>2, BlocksGrow
  <2> QED BY <2>1, <2>3
<1>4. /\ IsFiniteSet(IntactBlocks') /\ Cardinality(IntactBlocks') \in Nat
      /\ Cardinality(IntactBlocks) \in Nat
      /\ Cardinality(IntactBlocks') <= Cardinality(IntactBlocks) + 1
  <2>1. PICK b : new = {} \/ b \in new
    OBVIOUS
  <2>2. IntactBlocks' \in SUBSET (IntactBlocks \cup {b})
    <3>1. ASSUME NEW d \in new, NEW e \in new PROVE d = e
      <4>1. /\ d = <<d[1], n + 1>> /\ e = <<e[1], n + 1>>
            /\ \E v \in 1..n : OpenBlock(input, failures, d[1], v)
            /\ \E v \in 1..n : OpenBlock(input, failures, e[1], v)
        BY <1>3, <3>1
      <4>2. d[1] = e[1]
        BY <4>1, OpenBlocksApart
      <4> QED BY <4>1, <4>2
    <3> QED BY <2>1, <3>1
  <2>3. IsFiniteSet(IntactBlocks)
    BY DEF Survived
  <2>4. /\ IsFiniteSet(IntactBlocks \cup {b})
        /\ Cardinality(IntactBlocks) \in Nat
        /\ Cardinality(IntactBlocks \cup {b}) \in Nat
        /\ Cardinality(IntactBlocks \cup {b}) <= Cardinality(IntactBlocks) + 1
    <3>1. /\ IsFiniteSet(IntactBlocks \cup {b})
          /\ Cardinality(IntactBlocks \cup {b}) =
               IF b \in IntactBlocks THEN Cardinality(IntactBlocks)
                                     ELSE Cardinality(IntactBlocks) + 1
      BY <2>3, FS_AddElement
    <3>2. Cardinality(IntactBlocks) \in Nat
      BY <2>3, FS_CardinalityType
    <3> QED BY <3>1, <3>2
  <2>5. /\ IsFiniteSet(IntactBlocks')
        /\ Cardinality(IntactBlocks') <= Cardinality(IntactBlocks \cup {b})
    BY <2>2, <2>4, FS_Subset
  <2>6. Cardinality(IntactBlocks') \in Nat
    BY <2>5, FS_CardinalityType
  <2> QED BY <2>4, <2>5, <2>6
<1>5. Cardinality(IntactBlocks') <= Len(yielded')
  BY <1>1, <1>4 DEF Survived
<1>6. ASSUME NEW b \in IntactBlocks'
      PROVE  \E k \in DOMAIN yielded' :
               yielded'[k].uid = UidBetween(input', b[1] + 1, b[2] - 1)
  <2>1. CASE /\ b \in IntactBlocks /\ b = <<b[1], b[2]>>
             /\ b[1] \in 1..n /\ b[2] \in 1..n
    BY <2>1, SurvivorsStay
  <2>2. CASE /\ b[2] = n + 1 /\ b[1] \in 1..n
             /\ \E v \in 1..n : OpenBlock(input, failures, b[1], v)
    <3>1. b[2] - 1 = n /\ b[1] + 1 \in Nat /\ b[1] + 1 > 0
      BY <1>2, <2>2
    <3>2. c.uid = UidBetween(input, b[1] + 1, n)
      <4>1. PICK v \in 1..n : OpenBlock(input, failures, b[1], v)
        BY <2>2
      <4>2. v \in 0..n
        BY <1>2
      <4> QED BY <2>2, <4>1, <4>2
    <3>3. \A k \in b[1] + 1..n : input'[k] = input[k]
      BY <1>2, <2>2
    <3>4. UidBetween(input', b[1] + 1, n) = UidBetween(input, b[1] + 1, n)
      <4>1. n \in Int
        BY <1>2
      <4> HIDE DEF n
      <4> QED BY <3>1, <3>3, <4>1, UidKept
    <3> QED BY <1>1, <3>1, <3>2, <3>4
  <2> QED BY <1>3, <2>1, <2>2
<1> QED BY <1>4, <1>5, <1>6, SurvivedIs

LEMMA OpenBlockIsRead ==
  ASSUME SurviveInv, ~eof, NEW i, NEW v, OpenBlock(input, failures, i, v)
  PROVE  /\ pc = "inside" /\ version = VersionAt(input, v)
         /\ card.uid = UidBetween(input, i + 1, Len(input))
<1>1. i \in 1..Len(input) /\ v \in 0..Len(input)
  BY DEF OpenBlock
<1> QED BY <1>1 DEF SurviveInv, BlockIsRead

LEMMA CardStored ==
  ASSUME CardTyped, NEW line, card' = Store(card, line, line.name)
  PROVE  /\ CardTyped'
         /\ card'.uid = IF line.name = "UID" THEN line.value ELSE card.uid
<1>1. ASSUME NEW u, NEW k, NEW ps, NEW x
      PROVE  LET c == [uid |-> u, kind |-> k, props |-> ps]
             IN  /\ [c EXCEPT !.uid = x] = [uid |-> x, kind |-> k, props |-> ps]
                 /\ [c EXCEPT !.kind = x] = [uid |-> u, kind |-> x, props |-> ps]
                 /\ [c EXCEPT !.props = x] = [uid |-> u, kind |-> k, props |-> x]
  OBVIOUS
<1> DEFINE u == card.uid
           k == card.kind
           ps == card.props
<1>2. card = [uid |-> u, kind |-> k, props |-> ps]
  BY DEF CardTyped
<1> HIDE DEF u, k, ps
<1>3. CASE line.name = "UID"
  <2>1. card' = [card EXCEPT !.uid = line.value]
    BY <1>3 DEF Store
  <2>2. card' = [uid |-> line.value, kind |-> k, props |-> ps]
    BY <1>1, <1>2, <2>1
  <2> QED BY <1>3, <2>2 DEF CardTyped
<1>4. CASE line.name = "KIND"
  <2>1. card' = [card EXCEPT !.kind = line.value]
    BY <1>4 DEF Store
  <2>2. card' = [uid |-> u, kind |-> line.value, props |-> ps]
    BY <1>1, <1>2, <2>1
  <2> QED BY <1>4, <2>2 DEF CardTyped, u
<1>5. CASE line.name # "UID" /\ line.name # "KIND"
  <2> DEFINE longer == Append(ps, line)
  <2>1. card' = [card EXCEPT !.props = longer]
    BY <1>5, <1>2 DEF Store
  <2> HIDE DEF longer
  <2>2. card' = [uid |-> u, kind |-> k, props |-> longer]
    BY <1>1, <1>2, <2>1
  <2> QED BY <1>5, <2>2 DEF CardTyped, u
<1> QED BY <1>3, <1>4, <1>5

LEMMA SurviveTogether ==
  ASSUME input' \in Seq(Lines), failures' \in Seq(Nat), IsSeq(yielded'), CardTyped',
         pc' \in {"idle", "outside", "inside"},
         ~eof' => BlockIsRead' /\ BetweenCards', Survived'
  PROVE  SurviveInv'
BY DEF SurviveInv

LEMMA FailuresKept ==
  ASSUME SurviveInv, NEW line, Deliver(line)
  PROVE  failures' \in Seq(Nat)
BY DEF SurviveInv, Deliver

LEMMA SurviveBegin == SurviveInv /\ ReadBegin => SurviveInv'
<1> SUFFICES ASSUME SurviveInv, ReadBegin PROVE SurviveInv'
  OBVIOUS
<1>1. /\ Deliver(Begin) /\ Begin \in Lines /\ Begin # EndCard /\ Begin \notin PropertyLines
      /\ pc' = "inside" /\ card' = EmptyCard /\ version' = NoValue /\ yielded' = yielded
  BY CardLines DEF ReadBegin
<1>2. input \in Seq(Lines) /\ IsSeq(yielded) /\ Survived
  BY DEF SurviveInv
<1>3. /\ input' \in Seq(Lines) /\ Len(input) \in Nat /\ Len(input') = Len(input) + 1
      /\ input'[Len(input) + 1] = Begin
  BY <1>1, <1>2, InputGrows
<1>4. Survived'
  BY <1>1, <1>2, SurvivedOther
<1>5. card'.uid = NoValue /\ CardTyped'
  BY <1>1 DEF EmptyCard, CardTyped
<1>6. BlockIsRead'
  <2> SUFFICES ASSUME NEW i, NEW v, OpenBlock(input', failures', i, v)
               PROVE  /\ version' = VersionAt(input', v)
                      /\ card'.uid = UidBetween(input', i + 1, Len(input'))
    BY <1>1 DEF BlockIsRead
  <2>1. i = Len(input) + 1 /\ v = 0
    BY <1>1, <1>2, OpenBlockGrows
  <2>2. UidBetween(input', (Len(input) + 1) + 1, Len(input) + 1) = NoValue
    <3>1. Len(input) + 1 \in Nat
      BY <1>3
    <3> QED BY <3>1, UidNone
  <2> QED BY <1>1, <1>3, <1>5, <2>1, <2>2 DEF VersionAt
<1>7. BetweenCards'
  <2>1. input' # <<>>
    BY <1>3
  <2> QED BY <1>1, <1>3, <2>1 DEF BetweenCards
<1> QED BY <1>1, <1>2, <1>3, <1>4, <1>5, <1>6, <1>7, FailuresKept, SurviveTogether

LEMMA SurviveStray == SurviveInv /\ ReadStray => SurviveInv'
<1> SUFFICES ASSUME SurviveInv, ReadStray PROVE SurviveInv'
  OBVIOUS
<1>1. PICK line \in Lines \ {Begin} : Deliver(line)
  BY DEF ReadStray
<1>2. /\ pc = "outside" /\ pc' = "idle" /\ UNCHANGED <<card, yielded>>
      /\ input \in Seq(Lines) /\ IsSeq(yielded) /\ Survived /\ CardTyped
  BY DEF ReadStray, Fail, SurviveInv
<1>3. input' \in Seq(Lines) /\ ~eof
  BY <1>1, <1>2, InputGrows
<1>4. \A i, v : ~OpenBlock(input, failures, i, v)
  BY <1>2, <1>3, OpenBlockIsRead
<1>5. Survived'
  BY <1>1, <1>2, <1>4, SurvivedOther
<1>6. \A i, v : ~OpenBlock(input', failures', i, v)
  BY <1>1, <1>2, <1>4, OpenBlockGrows
<1>7. BlockIsRead' /\ BetweenCards'
  BY <1>2, <1>6 DEF BlockIsRead, BetweenCards
<1>8. CardTyped'
  BY <1>2 DEF CardTyped
<1> QED BY <1>1, <1>2, <1>3, <1>5, <1>7, <1>8, FailuresKept, SurviveTogether

LEMMA SurviveNestedOrGarbled == SurviveInv /\ ReadNestedOrGarbled => SurviveInv'
<1> SUFFICES ASSUME SurviveInv, ReadNestedOrGarbled PROVE SurviveInv'
  OBVIOUS
<1>1. PICK line \in {Begin, Garbled} : Deliver(line)
  BY DEF ReadNestedOrGarbled
<1>2. /\ pc = "inside" /\ pc' = "idle" /\ UNCHANGED <<card, yielded>>
      /\ input \in Seq(Lines) /\ IsSeq(yielded) /\ Survived /\ CardTyped
  BY DEF ReadNestedOrGarbled, Fail, SurviveInv
<1>3. line \in Lines /\ line # EndCard /\ line \notin PropertyLines
  BY CardLines
<1>4. input' \in Seq(Lines) /\ ~eof
  BY <1>1, <1>2, <1>3, InputGrows
<1>5. Survived'
  BY <1>1, <1>2, <1>3, SurvivedOther
<1>6. \A i, v : ~OpenBlock(input', failures', i, v)
  <2>1. ~(input = <<>> \/ input[Len(input)] = EndCard)
    BY <1>2, <1>4 DEF SurviveInv, BetweenCards
  <2> QED BY <1>1, <1>2, <1>3, <2>1, OpenBlockGrows
<1>7. BlockIsRead' /\ BetweenCards'
  BY <1>2, <1>6 DEF BlockIsRead, BetweenCards
<1>8. CardTyped'
  BY <1>2 DEF CardTyped
<1> QED BY <1>1, <1>2, <1>4, <1>5, <1>7, <1>8, FailuresKept, SurviveTogether

LEMMA SurviveEnd == SurviveInv /\ ReadEnd => SurviveInv'
<1> SUFFICES ASSUME SurviveInv, ReadEnd PROVE SurviveInv'
  OBVIOUS
<1>1. /\ Deliver(EndCard) /\ EndCard \in Lines /\ EndCard # Begin
      /\ EndCard \notin PropertyLines
  BY CardLines DEF ReadEnd
<1>2. /\ pc = "inside" /\ input \in Seq(Lines) /\ IsSeq(yielded) /\ Survived /\ CardTyped
  BY DEF ReadEnd, SurviveInv
<1>3. \/ version = Supported /\ pc' = "idle" /\ yielded' = Append(yielded, card)
         /\ card' = card
      \/ version # Supported /\ pc' = "idle" /\ yielded' = yielded /\ card' = card
  BY CardAssumption DEF ReadEnd, Fail
<1>4. input' \in Seq(Lines) /\ ~eof
  BY <1>1, <1>2, InputGrows
<1>5. Survived' /\ IsSeq(yielded')
  <2>1. CASE version = Supported
    <3>1. \A i \in 1..Len(input), v \in 0..Len(input) :
            OpenBlock(input, failures, i, v) => card.uid = UidBetween(input, i + 1, Len(input))
      BY <1>4, OpenBlockIsRead
    <3>2. yielded' = Append(yielded, card)
      BY <1>3, <2>1
    <3>3. Survived'
      BY <1>1, <1>2, <3>1, <3>2, SurvivedNew
    <3> QED BY <1>2, <3>2, <3>3, IsSeqAppend
  <2>2. CASE version # Supported
    <3>1. \A i, v : ~OpenBlock(input, failures, i, v) \/ input[v].value # Supported \/ v = 0
      BY <1>4, <2>2, OpenBlockIsRead DEF VersionAt
    <3>2. yielded' = yielded
      BY <1>3, <2>2
    <3>3. Survived'
      BY <1>1, <1>2, <3>1, <3>2, SurvivedOther
    <3> QED BY <1>2, <3>2, <3>3
  <2> QED BY <2>1, <2>2
<1>6. \A i, v : ~OpenBlock(input', failures', i, v)
  BY <1>1, <1>2, OpenBlockGrows
<1>7. BlockIsRead' /\ BetweenCards' /\ pc' = "idle" /\ CardTyped'
  BY <1>2, <1>3, <1>6 DEF BlockIsRead, BetweenCards, CardTyped
<1> QED BY <1>1, <1>4, <1>5, <1>7, FailuresKept, SurviveTogether

LEMMA SurviveProperty == SurviveInv /\ ReadProperty => SurviveInv'
<1> SUFFICES ASSUME SurviveInv, ReadProperty PROVE SurviveInv'
  OBVIOUS
<1>1. PICK line \in PropertyLines :
        /\ Deliver(line)
        /\ IF line.name = "VERSION"
           THEN IF version # NoValue
                THEN Fail("malformed")
                ELSE /\ version' = line.value
                     /\ UNCHANGED <<pc, card, result, yielded, failed>>
           ELSE /\ card' = Store(card, line, line.name)
                /\ UNCHANGED <<pc, version, result, yielded, failed>>
  BY DEF ReadProperty, StreamName
<1>2. /\ line \in Lines /\ line # Begin /\ line # EndCard
  BY CardLines
<1>3. /\ pc = "inside" /\ input \in Seq(Lines) /\ IsSeq(yielded) /\ Survived /\ CardTyped
  BY DEF ReadProperty, SurviveInv
<1>4. /\ pc' \in {"idle", "inside"} /\ yielded' = yielded
      /\ line.name = "VERSION" => card' = card
      /\ line.name # "VERSION" =>
           card' = Store(card, line, line.name) /\ UNCHANGED <<pc, version>>
      /\ line.name = "VERSION" /\ version = NoValue => version' = line.value /\ pc' = pc
  BY <1>1, <1>3 DEF Fail
<1>5. /\ input' \in Seq(Lines) /\ ~eof /\ Len(input) \in Nat
      /\ Len(input') = Len(input) + 1 /\ input'[Len(input) + 1] = line
      /\ \A k \in 1..Len(input) : input'[k] = input[k]
  BY <1>1, <1>2, <1>3, InputGrows
<1>6. Survived'
  BY <1>1, <1>2, <1>3, <1>4, SurvivedOther
<1>7. /\ CardTyped'
      /\ card'.uid = IF line.name = "UID" THEN line.value ELSE card.uid
  <2>1. CASE line.name = "VERSION"
    BY <1>3, <1>4, <2>1 DEF CardTyped
  <2>2. CASE line.name # "VERSION"
    BY <1>3, <1>4, <2>2, CardStored
  <2> QED BY <2>1, <2>2
<1>8. ASSUME NEW i, NEW v, OpenBlock(input', failures', i, v)
      PROVE  /\ pc' = "inside" /\ version' = VersionAt(input', v)
             /\ card'.uid = UidBetween(input', i + 1, Len(input'))
  <2>1. /\ i \in 1..Len(input)
        /\ line.name = "VERSION" <=> v = Len(input) + 1
        /\ line.name = "VERSION" => OpenBlock(input, failures, i, 0)
        /\ line.name # "VERSION" => v \in 0..Len(input) /\ OpenBlock(input, failures, i, v)
    BY <1>1, <1>2, <1>3, <1>8, OpenBlockGrows
  <2>2. card.uid = UidBetween(input, i + 1, Len(input))
    BY <1>5, <2>1, OpenBlockIsRead
  <2>3. card'.uid = UidBetween(input', i + 1, Len(input'))
    <3>1. UidBetween(input', i + 1, Len(input)) = UidBetween(input, i + 1, Len(input))
      <4>1. /\ i + 1 \in Nat /\ i + 1 > 0 /\ Len(input) \in Int
            /\ \A k \in i + 1..Len(input) : input'[k] = input[k]
        BY <1>5, <2>1
      <4> QED BY <4>1, UidKept
    <3>2. UidBetween(input', i + 1, Len(input) + 1) =
            IF input'[Len(input) + 1].name = "UID"
            THEN input'[Len(input) + 1].value
            ELSE UidBetween(input', i + 1, Len(input))
      <4>1. i + 1 \in Nat /\ i + 1 <= Len(input) + 1
        BY <1>5, <2>1
      <4> QED BY <1>5, <4>1, UidNext
    <3> QED BY <1>5, <1>7, <2>2, <3>1, <3>2
  <2>4. CASE line.name = "VERSION"
    <3>1. version = NoValue
      BY <1>5, <2>1, <2>4, OpenBlockIsRead DEF VersionAt
    <3>2. version' = line.value /\ pc' = "inside"
      BY <1>3, <1>4, <2>4, <3>1
    <3>3. VersionAt(input', v) = line.value
      BY <1>5, <2>1, <2>4 DEF VersionAt
    <3> QED BY <2>3, <3>2, <3>3
  <2>5. CASE line.name # "VERSION"
    <3>1. version = VersionAt(input, v) /\ v \in 0..Len(input)
      BY <1>5, <2>1, <2>5, OpenBlockIsRead
    <3>2. VersionAt(input', v) = VersionAt(input, v)
      BY <1>5, <3>1 DEF VersionAt
    <3> QED BY <1>3, <1>4, <2>3, <2>5, <3>1, <3>2
  <2> QED BY <2>4, <2>5
<1>9. BlockIsRead'
  BY <1>8 DEF BlockIsRead
<1>10. BetweenCards'
  <2>1. input' # <<>> /\ input'[Len(input')] # EndCard
    BY <1>2, <1>5
  <2> QED BY <2>1 DEF BetweenCards
<1>11. IsSeq(yielded')
  BY <1>3, <1>4
<1> QED BY <1>1, <1>4, <1>5, <1>6, <1>7, <1>9, <1>10, <1>11, FailuresKept,
           SurviveTogether

\* No line is read: the end of input, a call, or the writer's steps.
LEMMA SurviveUnread ==
  ASSUME SurviveInv, UNCHANGED <<card, yielded, input, failures>>,
         \/ eof' = TRUE /\ pc' \in {"idle", "outside", "inside"}
         \/ /\ eof' = eof /\ version' = version
            /\ pc' = pc \/ (pc = "idle" /\ pc' = "outside")
  PROVE  SurviveInv'
<1>1. Survived' /\ CardTyped'
  BY DEF SurviveInv, Survived, IntactBlocks, Intact, CardTyped
<1>2. /\ input' \in Seq(Lines) /\ failures' \in Seq(Nat) /\ IsSeq(yielded')
      /\ pc' \in {"idle", "outside", "inside"}
  BY DEF SurviveInv
<1>3. ~eof' => BlockIsRead' /\ BetweenCards'
  <2> SUFFICES ASSUME ~eof' PROVE BlockIsRead' /\ BetweenCards'
    OBVIOUS
  <2>1. /\ eof' = eof /\ version' = version /\ BlockIsRead /\ BetweenCards
        /\ pc' = pc \/ (pc = "idle" /\ pc' = "outside")
    BY DEF SurviveInv
  <2>2. BlockIsRead'
    BY <2>1 DEF BlockIsRead
  <2>3. BetweenCards'
    BY <2>1 DEF BetweenCards
  <2> QED BY <2>2, <2>3
<1> QED BY <1>1, <1>2, <1>3, SurviveTogether

\* A failure of the reader costs the block it falls in, and no block but that one.
LEMMA SurviveReadError == SurviveInv /\ ReadError => SurviveInv'
<1> SUFFICES ASSUME SurviveInv, ReadError PROVE SurviveInv'
  OBVIOUS
<1>1. /\ input' = input /\ yielded' = yielded /\ card' = card /\ pc' = "idle"
      /\ failures' = Append(failures, Len(input))
      /\ input \in Seq(Lines) /\ failures \in Seq(Nat) /\ IsSeq(yielded) /\ CardTyped
      /\ Survived
  BY DEF ReadError, Fail, SurviveInv
<1>2. Len(input) \in Nat
  BY <1>1, LenProperties
<1>3. /\ failures' \in Seq(Nat) /\ Len(failures) + 1 \in DOMAIN failures'
      /\ failures'[Len(failures) + 1] = Len(input)
      /\ \A f \in DOMAIN failures : f \in DOMAIN failures' /\ failures'[f] = failures[f]
  BY <1>1, <1>2, AppendProperties, LenProperties
<1>4. \A i, v : ~OpenBlock(input', failures', i, v)
  <2> SUFFICES ASSUME NEW i, NEW v, OpenBlock(input', failures', i, v) PROVE FALSE
    OBVIOUS
  <2>1. i \in 1..Len(input) /\ \A f \in DOMAIN failures' : failures'[f] \notin i..Len(input)
    BY <1>1 DEF OpenBlock
  <2> QED BY <1>2, <1>3, <2>1
<1>5. IntactBlocks' \in SUBSET IntactBlocks
  <2>1. ASSUME NEW i, NEW j, (<<i, j>> \in IntactBlocks)'
        PROVE  <<i, j>> \in IntactBlocks
    BY <1>1, <1>3, <2>1, IntactBlockIs
  <2> QED BY <2>1, IntactBlockPair
<1>6. Survived'
  <2>1. /\ IsFiniteSet(IntactBlocks')
        /\ Cardinality(IntactBlocks') <= Cardinality(IntactBlocks)
    BY <1>1, <1>5, FS_Subset DEF Survived
  <2>2. /\ Cardinality(IntactBlocks') \in Nat /\ Cardinality(IntactBlocks) \in Nat
        /\ Len(yielded) \in Nat
    BY <1>1, <2>1, FS_CardinalityType, IsSeqProperties DEF Survived
  <2>3. Cardinality(IntactBlocks') <= Len(yielded')
    BY <1>1, <2>1, <2>2 DEF Survived
  <2> QED BY <1>1, <1>5, <2>1, <2>3, SurvivedIs DEF Survived
<1>7. BlockIsRead' /\ BetweenCards' /\ CardTyped'
  BY <1>1, <1>4 DEF BlockIsRead, BetweenCards, CardTyped
<1> QED BY <1>1, <1>3, <1>6, <1>7, SurviveTogether

LEMMA SurviveStep == SurviveInv /\ [ExNext]_exVars => SurviveInv'
<1> SUFFICES ASSUME SurviveInv, [ExNext]_exVars PROVE SurviveInv'
  OBVIOUS
<1>1. CASE ReadEOF
  BY <1>1, SurviveUnread DEF ReadEOF, Fail
<1>2. CASE ReadLine
  <2>1. Read
    BY <1>2 DEF ReadLine
  <2> QED BY <1>1, <2>1, SurviveBegin, SurviveStray, SurviveProperty,
             SurviveNestedOrGarbled, SurviveEnd, SurviveReadError DEF Read
<1>3. CASE NextCall
  BY <1>3, SurviveUnread DEF NextCall, Call, reading
<1>4. CASE Write
  BY <1>4, SurviveUnread DEF Write, vars, parser, reading
<1>5. CASE Stop
  BY <1>5, SurviveUnread DEF Stop, parser, reading
<1>6. CASE UNCHANGED exVars
  BY <1>6, SurviveUnread DEF exVars, vars, parser, reading
<1> QED BY <1>2, <1>3, <1>4, <1>5, <1>6 DEF ExNext

LEMMA SurviveInit == ExInit => SurviveInv
<1> SUFFICES ASSUME ExInit PROVE SurviveInv
  OBVIOUS
<1>1. /\ pc = "idle" /\ card = EmptyCard /\ yielded = <<>> /\ input = <<>>
      /\ failures = <<>>
  BY DEF ExInit, Start
<1>2. <<>> \in Seq(Lines) /\ Len(<<>>) = 0 /\ IsSeq(<<>>)
  <2>1. <<>> \in Seq(Lines)
    OBVIOUS
  <2>2. Len(<<>>) = 0
    OBVIOUS
  <2>3. IsSeq(<<>>)
    BY IsSeqShort
  <2> QED BY <2>1, <2>2, <2>3
<1>3. IntactBlocks = {}
  BY <1>1 DEF IntactBlocks
<1>4. Survived
  <2>1. IsFiniteSet(IntactBlocks) /\ Cardinality(IntactBlocks) = 0
    BY <1>3, FS_EmptySet
  <2> QED BY <1>1, <1>2, <1>3, <2>1 DEF Survived
<1>5. CardTyped
  BY <1>1 DEF CardTyped, EmptyCard
<1>6. BlockIsRead /\ BetweenCards
  BY <1>1, <1>2 DEF BlockIsRead, BetweenCards
<1>7. failures \in Seq(Nat)
  <2>1. <<>> \in Seq(Nat)
    OBVIOUS
  <2> QED BY <1>1, <2>1
<1> QED BY <1>1, <1>2, <1>4, <1>5, <1>6, <1>7 DEF SurviveInv

\* However many errors came before, those of the reader included, a block with one
\* supported VERSION and nothing else wrong, delivered without a failure, at the start of the input or behind some END, is one card
\* of its own among those returned, with the UID it said last.
THEOREM BadCardsCostThemselves == ExSpec => []IntactCardsSurvive
<1>1. SurviveInv /\ [ExNext]_exVars => SurviveInv'
  BY SurviveStep
<1>2. SurviveInv => IntactCardsSurvive
  BY SurvivedIs DEF SurviveInv
<1> QED BY SurviveInit, <1>1, <1>2, PTL DEF ExSpec

-----------------------------------------------------------------------------
(* Reading what an encoder left behind. *)

\* The cards hold UID and KIND in their fields and no BEGIN, END or VERSION, which
\* the encoder writes itself.
CardPropertiesAssumption ==
  \A i \in Items : \A k \in DOMAIN CardOf[i].props : CardOf[i].props[k].name = "X"

\* What is left of a card after each of its fields.
Back(c) == c.props \o <<EndCard>>

AfterUid(c) == (IF c.kind # NoValue THEN <<Plain("KIND", c.kind)>> ELSE <<>>) \o Back(c)

AfterVersion(c) == <<Plain("UID", c.uid)>> \o AfterUid(c)

AfterBegin(c) == <<Plain("VERSION", Supported)>> \o AfterVersion(c)

\* The first m items of w, on the wire.
DocTo(w, m) == Writer!Document(SubSeq(w, 1, m))

\* The parser is inside card c, which ends where the lines text end.
Inside(c, text) ==
  \/ version = NoValue /\ card = EmptyCard /\ input \o AfterBegin(c) = text
  \/ version = Supported /\ card = EmptyCard /\ input \o AfterVersion(c) = text
  \/ /\ version = Supported /\ card = [uid |-> c.uid, kind |-> NoValue, props |-> <<>>]
     /\ c.kind # NoValue /\ input \o AfterUid(c) = text
  \/ /\ version = Supported
     /\ \E n \in 0..Len(c.props) :
          /\ card = [uid |-> c.uid, kind |-> c.kind, props |-> SubSeq(c.props, 1, n)]
          /\ input \o (SubSeq(c.props, n + 1, Len(c.props)) \o <<EndCard>>) = text

\* The parser is where the lines it has read so far have brought it.
Position(w, m) ==
  /\ yielded = CardsOf(SubSeq(w, 1, m))
  /\ IF pc = "inside"
     THEN /\ m < Len(w) /\ Inside(CardOf[w[m + 1]], DocTo(w, m + 1))
          /\ input # <<>> /\ input[Len(input)] # EndCard
     ELSE input = DocTo(w, m)

Ends(lines) == Cardinality({k \in DOMAIN lines : lines[k] = EndCard})

Cut == wire # <<>> /\ Last(wire) # EndCard

\* The lines come from the items w, of which the last was not acknowledged.
Origin(w) ==
  /\ kind = "card" /\ header \in ProdIDs \cup {DefaultProdID}
  /\ source = Text(wire) /\ acked \in Seq(Items) /\ wire \in Seq(WireLines)
  /\ \E i \in Items : w = Append(acked, i)
  /\ IsPrefix(wire, Writer!Document(w))
  /\ closed => wire = Writer!Document(acked)

ReadSoFar(w) ==
  /\ input \in Seq(WireLines) /\ pc \in {"idle", "outside", "inside"}
  /\ IsPrefix(input, wire)
  /\ Len(yielded) = Ends(input)
  /\ ~eof => ~failed /\ ~done /\ result # "EOF"
             /\ \E m \in 0..Len(w) : Position(w, m)
  /\ eof => /\ pc # "inside" /\ input = wire
            /\ failed <=> Cut
            /\ \E m \in 0..Len(w) : yielded = CardsOf(SubSeq(w, 1, m))
            /\ closed => yielded = CardsOf(acked)

Unread ==
  /\ pc = "idle" /\ yielded = <<>> /\ input = <<>> /\ result = "none"
  /\ ~eof /\ ~failed /\ ~done

GotInv ==
  /\ source = NoSource => Unread
  /\ source \notin {NoSource, Anything} =>
       \E w \in {Append(acked, i) : i \in Items} : Origin(w) /\ ReadSoFar(w)

LEMMA CardParts ==
  ASSUME NEW i \in Items
  PROVE  LET c == CardOf[i] IN
         /\ c = [uid |-> c.uid, kind |-> c.kind, props |-> c.props]
         /\ c.props \in Seq(PropertyLines) /\ c.props \in Seq(WireLines)
         /\ Begin \in WireLines /\ EndCard \in WireLines
         /\ Plain("VERSION", Supported) \in WireLines
         /\ Plain("UID", c.uid) \in WireLines /\ Plain("KIND", c.kind) \in WireLines
         /\ <<Begin>> \in Seq(WireLines) /\ <<EndCard>> \in Seq(WireLines)
<1> DEFINE c == CardOf[i]
<1>1. /\ c \in [uid : Uids \cup {NoValue}, kind : CardKinds \cup {NoValue},
                props : Seq(PropertyLines)]
  BY EncoderAssumption
<1>2. c = [uid |-> c.uid, kind |-> c.kind, props |-> c.props]
  <2> HIDE DEF c
  <2> QED BY <1>1
<1>3. /\ c.uid \in Uids \cup {NoValue} /\ c.kind \in CardKinds \cup {NoValue}
  BY <1>1
<1> HIDE DEF c
<1>4. /\ Begin \in WireLines /\ EndCard \in WireLines
      /\ Plain("VERSION", Supported) \in WireLines
      /\ Plain("UID", c.uid) \in WireLines /\ Plain("KIND", c.kind) \in WireLines
  BY <1>3 DEF Begin, EndCard, Plain, Bare, WireLines
<1>5. <<Begin>> \in Seq(WireLines) /\ <<EndCard>> \in Seq(WireLines)
  BY <1>4, ThreeLines
<1>6. c.props \in Seq(PropertyLines) /\ c.props \in Seq(WireLines)
  BY FieldsTyped DEF c
<1> QED BY <1>2, <1>4, <1>5, <1>6 DEF c

LEMMA AfterTyped ==
  ASSUME NEW i \in Items
  PROVE  /\ Back(CardOf[i]) \in Seq(WireLines) /\ AfterUid(CardOf[i]) \in Seq(WireLines)
         /\ AfterVersion(CardOf[i]) \in Seq(WireLines)
         /\ AfterBegin(CardOf[i]) \in Seq(WireLines)
<1> DEFINE c == CardOf[i]
<1>1. /\ c.props \in Seq(WireLines) /\ <<EndCard>> \in Seq(WireLines)
      /\ Plain("VERSION", Supported) \in WireLines
      /\ Plain("UID", c.uid) \in WireLines /\ Plain("KIND", c.kind) \in WireLines
  BY CardParts
<1> HIDE DEF c
<1>2. Back(c) \in Seq(WireLines)
  BY <1>1, ConcatProperties DEF Back
<1>3. AfterUid(c) \in Seq(WireLines)
  BY <1>1, <1>2, ThreeLines, ConcatProperties DEF AfterUid
<1>4. AfterVersion(c) \in Seq(WireLines)
  BY <1>1, <1>3, ThreeLines, ConcatProperties DEF AfterVersion
<1>5. AfterBegin(c) \in Seq(WireLines)
  BY <1>1, <1>4, ThreeLines, ConcatProperties DEF AfterBegin
<1> QED BY <1>2, <1>3, <1>4, <1>5 DEF c

\* An encoded card is its lines, one field behind the other; the last is END.
LEMMA EncodeIs ==
  ASSUME NEW i \in Items
  PROVE  /\ EncodeCard(CardOf[i]) \in Seq(WireLines)
         /\ EncodeCard(CardOf[i]) = <<Begin>> \o AfterBegin(CardOf[i])
         /\ \E front \in Seq(WireLines) : EncodeCard(CardOf[i]) = front \o <<EndCard>>
<1> DEFINE c == CardOf[i]
           ver == Plain("VERSION", Supported)
           uid == Plain("UID", c.uid)
           middle == IF c.kind # NoValue THEN <<Plain("KIND", c.kind)>> ELSE <<>>
           front == Fields(c) \o c.props
<1>1. /\ Fields(c) \in Seq(WireLines) /\ c.props \in Seq(WireLines)
      /\ <<EndCard>> \in Seq(WireLines)
      /\ EncodeCard(c) = Fields(c) \o c.props \o <<EndCard>>
  BY FieldsTyped
<1>2. /\ Begin \in WireLines /\ ver \in WireLines /\ uid \in WireLines
      /\ Plain("KIND", c.kind) \in WireLines
  BY CardParts
<1>3. middle \in Seq(WireLines) /\ Back(c) \in Seq(WireLines)
  BY <1>2, ThreeLines, AfterTyped
<1>4. AfterUid(c) = middle \o Back(c) /\ AfterUid(c) \in Seq(WireLines)
  BY AfterTyped DEF AfterUid
<1>5. Fields(c) = <<Begin, ver, uid>> \o middle
  BY DEF Fields
<1>6. front \in Seq(WireLines) /\ EncodeCard(c) = front \o <<EndCard>>
  BY <1>1, ConcatProperties
<1>7. AfterVersion(c) = <<uid>> \o AfterUid(c) /\ AfterVersion(c) \in Seq(WireLines)
  BY AfterTyped DEF AfterVersion
<1>8. AfterBegin(c) = <<ver>> \o AfterVersion(c)
  BY DEF AfterBegin
<1>9. Back(c) = c.props \o <<EndCard>>
  BY DEF Back
<1> HIDE DEF c, ver, uid, middle
<1>10. EncodeCard(c) = Fields(c) \o Back(c)
  <2>1. (Fields(c) \o c.props) \o <<EndCard>> = Fields(c) \o (c.props \o <<EndCard>>)
    <3> DEFINE a == Fields(c)
               b == c.props
               d == <<EndCard>>
    <3>1. a \in Seq(WireLines) /\ b \in Seq(WireLines) /\ d \in Seq(WireLines)
      BY <1>1
    <3> HIDE DEF a, b, d
    <3>2. (a \o b) \o d = a \o (b \o d)
      BY ONLY <3>1, ConcatAssociative
    <3> QED BY <3>2 DEF a, b, d
  <2> QED BY <1>1, <1>9, <2>1
<1>11. Fields(c) \o Back(c) = <<Begin, ver, uid>> \o AfterUid(c)
  <2>1. <<Begin, ver, uid>> \in Seq(WireLines)
    BY <1>2, ThreeLines
  <2>2. (<<Begin, ver, uid>> \o middle) \o Back(c) = <<Begin, ver, uid>> \o (middle \o Back(c))
    BY <1>3, <2>1, ConcatAssociative
  <2> QED BY <1>4, <1>5, <2>2
<1>12. <<Begin, ver, uid>> \o AfterUid(c) = <<Begin>> \o (<<ver>> \o (<<uid>> \o AfterUid(c)))
  <2>1. /\ <<Begin>> \in Seq(WireLines) /\ <<ver>> \in Seq(WireLines)
        /\ <<uid>> \in Seq(WireLines)
    BY <1>2, ThreeLines
  <2>2. <<ver>> \o <<uid>> \in Seq(WireLines)
    BY <2>1, ConcatProperties
  <2>3. (<<ver>> \o <<uid>>) \o AfterUid(c) = <<ver>> \o (<<uid>> \o AfterUid(c))
    BY <1>4, <2>1, ConcatAssociative
  <2>4. (<<Begin>> \o (<<ver>> \o <<uid>>)) \o AfterUid(c)
          = <<Begin>> \o ((<<ver>> \o <<uid>>) \o AfterUid(c))
    BY <1>4, <2>1, <2>2, ConcatAssociative
  <2>5. <<Begin>> \o (<<ver>> \o <<uid>>) = <<Begin, ver, uid>>
    <3>1. <<Begin>> \o (<<ver>> \o <<uid>>) = (<<Begin>> \o <<ver>>) \o <<uid>>
      BY ONLY <2>1, ConcatAssociative
    <3>2. <<Begin>> \o <<ver>> = Append(<<Begin>>, ver)
      BY <1>2, <2>1, AppendIsConcat
    <3>3. Append(<<Begin>>, ver) \in Seq(WireLines)
      BY <1>2, <2>1, AppendProperties
    <3>4. Append(<<Begin>>, ver) \o <<uid>> = Append(Append(<<Begin>>, ver), uid)
      BY <1>2, <3>3, AppendIsConcat
    <3>5. Append(Append(<<Begin>>, ver), uid) = <<Begin, ver, uid>>
      BY <1>2, TupleAppend
    <3> QED BY <3>1, <3>2, <3>4, <3>5
  <2> QED BY <2>3, <2>4, <2>5
<1>13. EncodeCard(c) = <<Begin>> \o AfterBegin(c)
  BY <1>7, <1>8, <1>10, <1>11, <1>12
<1>14. EncodeCard(c) \in Seq(WireLines)
  BY <1>1, <1>6, ConcatProperties
<1> QED BY <1>6, <1>13, <1>14 DEF c

\* A document grows by a card at a time.
LEMMA DocToIs ==
  ASSUME kind = "card", header \in ProdIDs \cup {DefaultProdID}, NEW w \in Seq(Items)
  PROVE  /\ DocTo(w, 0) = <<>> /\ DocTo(w, Len(w)) = Writer!Document(w)
         /\ \A m \in 0..Len(w) : DocTo(w, m) \in Seq(WireLines)
         /\ \A m \in 0..Len(w) : m # Len(w) =>
              /\ m + 1 \in 0..Len(w) /\ w[m + 1] \in Items
              /\ DocTo(w, m + 1) = DocTo(w, m) \o EncodeCard(CardOf[w[m + 1]])
<1>1. Writer!Document(<<>>) = <<>>
  <2>1. <<>> \in Seq(Items)
    OBVIOUS
  <2>2. Writer!HeaderLines(header) = <<>>
    BY DEF Writer!HeaderLines
  <2> QED BY <2>1, <2>2, DocumentAppend
<1>2. DocTo(w, 0) = <<>>
  <2>1. SubSeq(w, 1, 0) = <<>>
    OBVIOUS
  <2> QED BY <1>1, <2>1 DEF DocTo
<1>3. DocTo(w, Len(w)) = Writer!Document(w)
  BY SubSeqFull DEF DocTo
<1>4. ASSUME NEW m \in 0..Len(w)
      PROVE  DocTo(w, m) \in Seq(WireLines)
  <2>1. SubSeq(w, 1, m) \in Seq(Items)
    BY CutInTwo
  <2> QED BY <2>1, DocumentAppend DEF DocTo
<1>5. ASSUME NEW m \in 0..Len(w), m # Len(w)
      PROVE  /\ m + 1 \in 0..Len(w) /\ w[m + 1] \in Items
             /\ DocTo(w, m + 1) = DocTo(w, m) \o EncodeCard(CardOf[w[m + 1]])
  <2> DEFINE first == SubSeq(w, 1, m)
             next == w[m + 1]
  <2>1. /\ m + 1 \in 0..Len(w) /\ next \in Items
        /\ SubSeq(w, 1, m + 1) = Append(first, next)
    BY <1>5, CutFurther
  <2>2. first \in Seq(Items)
    BY CutInTwo
  <2>3. Writer!ItemLines(next) = EncodeCard(CardOf[next])
    BY <2>1, FieldsTyped DEF Writer!ItemLines
  <2> HIDE DEF first, next
  <2>4. Writer!Document(Append(first, next)) = Writer!Document(first) \o Writer!ItemLines(next)
    BY <2>1, <2>2, DocumentAppend
  <2> QED BY <2>1, <2>3, <2>4 DEF DocTo, first, next
<1> QED BY <1>2, <1>3, <1>4, <1>5

\* The first cards are the beginning of the document, and shorter than any more.
LEMMA DocToGrows ==
  ASSUME kind = "card", header \in ProdIDs \cup {DefaultProdID}, NEW w \in Seq(Items),
         NEW n \in 0..Len(w), NEW m \in 0..n
  PROVE  /\ IsPrefix(DocTo(w, m), DocTo(w, n))
         /\ m # n => Len(DocTo(w, m)) < Len(DocTo(w, n))
<1> DEFINE Holds == {k \in Nat : m + k <= Len(w) =>
                       /\ IsPrefix(DocTo(w, m), DocTo(w, m + k))
                       /\ Len(DocTo(w, m)) + k <= Len(DocTo(w, m + k))}
<1>1. Len(w) \in Nat /\ m \in 0..Len(w)
  BY LenProperties
<1>2. DocTo(w, m) \in Seq(WireLines) /\ Len(DocTo(w, m)) \in Nat
  BY <1>1, DocToIs, LenProperties
<1>3. 0 \in Holds
  <2>1. m + 0 = m /\ Len(DocTo(w, m)) + 0 = Len(DocTo(w, m))
    BY <1>1, <1>2
  <2>2. IsPrefix(DocTo(w, m), DocTo(w, m))
    BY <1>2, PrefixIs
  <2> QED BY <1>2, <2>1, <2>2
<1>4. ASSUME NEW k \in Nat, k \in Holds PROVE k + 1 \in Holds
  <2> SUFFICES ASSUME m + (k + 1) <= Len(w)
               PROVE  /\ IsPrefix(DocTo(w, m), DocTo(w, m + (k + 1)))
                      /\ Len(DocTo(w, m)) + (k + 1) <= Len(DocTo(w, m + (k + 1)))
    OBVIOUS
  <2>1. /\ m + k \in 0..Len(w) /\ m + k # Len(w) /\ m + (k + 1) = (m + k) + 1
    BY <1>1
  <2>2. /\ IsPrefix(DocTo(w, m), DocTo(w, m + k))
        /\ Len(DocTo(w, m)) + k <= Len(DocTo(w, m + k))
    BY <1>1, <1>4, <2>1
  <2> DEFINE was == DocTo(w, m + k)
             code == EncodeCard(CardOf[w[(m + k) + 1]])
  <2>3. /\ DocTo(w, m + (k + 1)) = was \o code
        /\ was \in Seq(WireLines) /\ w[(m + k) + 1] \in Items
    BY <2>1, DocToIs
  <2>4. PICK front \in Seq(WireLines) : code = front \o <<EndCard>>
    BY <2>3, EncodeIs
  <2>5. code \in Seq(WireLines) /\ Len(code) >= 1
    <3>1. code \in Seq(WireLines)
      BY <2>3, EncodeIs
    <3>2. <<EndCard>> \in Seq(WireLines) /\ Len(<<EndCard>>) = 1
      BY <2>3, CardParts
    <3>3. Len(front \o <<EndCard>>) = Len(front) + 1 /\ Len(front) \in Nat
      BY <3>2, ConcatProperties, LenProperties
    <3> QED BY <2>4, <3>1, <3>3
  <2> HIDE DEF was, code
  <2>6. Len(was \o code) = Len(was) + Len(code) /\ Len(was) \in Nat /\ Len(code) \in Nat
    BY <2>3, <2>5, ConcatProperties, LenProperties
  <2>7. IsPrefix(DocTo(w, m), was \o code)
    BY <1>2, <2>2, <2>3, <2>5, PrefixConcat DEF was
  <2>8. Len(DocTo(w, m)) + (k + 1) <= Len(was \o code)
    BY <1>2, <2>2, <2>5, <2>6 DEF was
  <2> QED BY <2>3, <2>7, <2>8
<1> HIDE DEF Holds
<1>5. Nat \subseteq Holds
  BY <1>3, <1>4, SetInduction
<1>6. n - m \in Nat /\ m + (n - m) = n /\ n <= Len(w)
  BY <1>1
<1>7. /\ IsPrefix(DocTo(w, m), DocTo(w, n))
      /\ Len(DocTo(w, m)) + (n - m) <= Len(DocTo(w, n))
  BY <1>5, <1>6 DEF Holds
<1>8. Len(DocTo(w, n)) \in Nat
  BY DocToIs, LenProperties
<1> QED BY <1>2, <1>6, <1>7, <1>8

LEMMA DocToEnds ==
  ASSUME kind = "card", header \in ProdIDs \cup {DefaultProdID}, NEW w \in Seq(Items),
         NEW m \in 0..Len(w)
  PROVE  DocTo(w, m) = <<>> \/ DocTo(w, m)[Len(DocTo(w, m))] = EndCard
<1>1. CASE m = 0
  BY <1>1, DocToIs
<1>2. CASE m # 0
  <2>1. m - 1 \in 0..Len(w) /\ m - 1 # Len(w) /\ (m - 1) + 1 = m
    BY <1>2, LenProperties
  <2>2. /\ w[m] \in Items
        /\ DocTo(w, m) = DocTo(w, m - 1) \o EncodeCard(CardOf[w[m]])
        /\ DocTo(w, m - 1) \in Seq(WireLines)
    BY <2>1, DocToIs
  <2>3. PICK front \in Seq(WireLines) : EncodeCard(CardOf[w[m]]) = front \o <<EndCard>>
    BY <2>2, EncodeIs
  <2>4. <<EndCard>> \in Seq(WireLines) /\ EndCard \in WireLines
    BY <2>2, CardParts
  <2> DEFINE before == DocTo(w, m - 1) \o front
  <2>5. before \in Seq(WireLines)
    BY <2>2, <2>3, ConcatProperties
  <2>6. DocTo(w, m) = before \o <<EndCard>>
    BY <2>2, <2>3, <2>4, ConcatAssociative
  <2> HIDE DEF before
  <2>7. before \o <<EndCard>> = Append(before, EndCard)
    BY <2>4, <2>5, AppendIsConcat
  <2>8. /\ Len(Append(before, EndCard)) = Len(before) + 1
        /\ Append(before, EndCard)[Len(before) + 1] = EndCard
    BY <2>4, <2>5, AppendProperties
  <2> QED BY <2>6, <2>7, <2>8
<1> QED BY <1>1, <1>2

\* Cards written and cards to come.
LEMMA CardsOfFirst ==
  ASSUME NEW w \in Seq(Items)
  PROVE  /\ CardsOf(SubSeq(w, 1, 0)) = <<>>
         /\ \A m \in 0..Len(w) :
              /\ Len(CardsOf(SubSeq(w, 1, m))) = m
              /\ IsPrefix(CardsOf(SubSeq(w, 1, m)), CardsOf(w))
              /\ m # Len(w) => CardsOf(SubSeq(w, 1, m + 1))
                                 = Append(CardsOf(SubSeq(w, 1, m)), CardOf[w[m + 1]])
<1> DEFINE S == {CardOf[i] : i \in Items}
<1>1. ASSUME NEW s \in Seq(Items)
      PROVE  /\ CardsOf(s) \in Seq(S) /\ Len(CardsOf(s)) = Len(s)
             /\ \A k \in 1..Len(s) : CardsOf(s)[k] = CardOf[s[k]]
  BY DEF CardsOf
<1> HIDE DEF S
<1>2. ASSUME NEW m \in 0..Len(w)
      PROVE  /\ SubSeq(w, 1, m) \in Seq(Items) /\ Len(SubSeq(w, 1, m)) = m
             /\ \A k \in 1..m : SubSeq(w, 1, m)[k] = w[k]
  OBVIOUS
<1>3. CardsOf(SubSeq(w, 1, 0)) = <<>>
  <2>1. 0 \in 0..Len(w)
    BY LenProperties
  <2>2. Len(CardsOf(SubSeq(w, 1, 0))) = 0 /\ CardsOf(SubSeq(w, 1, 0)) \in Seq(S)
    BY <1>1, <1>2, <2>1
  <2> QED BY <2>2, EmptySeq
<1>4. ASSUME NEW m \in 0..Len(w)
      PROVE  /\ Len(CardsOf(SubSeq(w, 1, m))) = m
             /\ IsPrefix(CardsOf(SubSeq(w, 1, m)), CardsOf(w))
  <2>1. /\ CardsOf(SubSeq(w, 1, m)) \in Seq(S) /\ Len(CardsOf(SubSeq(w, 1, m))) = m
        /\ CardsOf(w) \in Seq(S) /\ Len(CardsOf(w)) = Len(w)
        /\ \A k \in 1..m : CardsOf(SubSeq(w, 1, m))[k] = CardsOf(w)[k]
    <3>1. m <= Len(w) /\ \A k \in 1..m : k \in 1..Len(w)
      BY LenProperties
    <3> DEFINE first == SubSeq(w, 1, m)
    <3>2. first \in Seq(Items) /\ Len(first) = m /\ \A k \in 1..m : first[k] = w[k]
      BY <1>2
    <3> HIDE DEF first
    <3>3. /\ CardsOf(first) \in Seq(S) /\ Len(CardsOf(first)) = m
          /\ \A k \in 1..m : CardsOf(first)[k] = CardOf[first[k]]
      BY <1>1, <3>2
    <3>4. /\ CardsOf(w) \in Seq(S) /\ Len(CardsOf(w)) = Len(w)
          /\ \A k \in 1..Len(w) : CardsOf(w)[k] = CardOf[w[k]]
      BY <1>1
    <3>5. \A k \in 1..m : CardsOf(first)[k] = CardsOf(w)[k]
      BY <3>1, <3>2, <3>3, <3>4
    <3> QED BY <3>3, <3>4, <3>5 DEF first
  <2> QED BY <2>1, PrefixIs, LenProperties
<1>5. ASSUME NEW m \in 0..Len(w), m # Len(w)
      PROVE  CardsOf(SubSeq(w, 1, m + 1))
               = Append(CardsOf(SubSeq(w, 1, m)), CardOf[w[m + 1]])
  <2> DEFINE first == SubSeq(w, 1, m)
             next == w[m + 1]
  <2>1. /\ next \in Items /\ SubSeq(w, 1, m + 1) = Append(first, next)
        /\ first \in Seq(Items)
    BY <1>5, CutInTwo, CutFurther
  <2> HIDE DEF first, next
  <2>2. CardsOf(Append(first, next)) = Append(CardsOf(first), CardOf[next])
    <3> DEFINE longer == Append(first, next)
    <3>1. /\ longer \in Seq(Items) /\ Len(longer) = Len(first) + 1 /\ Len(first) \in Nat
          /\ \A k \in 1..Len(first) : longer[k] = first[k]
          /\ longer[Len(first) + 1] = next
      BY <2>1, AppendProperties, LenProperties
    <3> HIDE DEF longer
    <3>2. CardOf[next] \in S
      BY <2>1 DEF S
    <3>3. /\ CardsOf(longer) \in Seq(S) /\ Len(CardsOf(longer)) = Len(first) + 1
          /\ \A k \in 1..Len(first) + 1 : CardsOf(longer)[k] = CardOf[longer[k]]
          /\ CardsOf(first) \in Seq(S) /\ Len(CardsOf(first)) = Len(first)
          /\ \A k \in 1..Len(first) : CardsOf(first)[k] = CardOf[first[k]]
      BY <1>1, <2>1, <3>1
    <3> DEFINE a == CardsOf(longer)
               b == Append(CardsOf(first), CardOf[next])
    <3>4. /\ b \in Seq(S) /\ Len(b) = Len(first) + 1
          /\ \A k \in 1..Len(first) : b[k] = CardsOf(first)[k]
          /\ b[Len(first) + 1] = CardOf[next]
      BY <3>2, <3>3, AppendProperties
    <3>5. a \in Seq(S) /\ Len(a) = Len(first) + 1
      BY <3>3
    <3>6. \A k \in 1..Len(first) + 1 : a[k] = b[k]
      <4> SUFFICES ASSUME NEW k \in 1..Len(first) + 1 PROVE a[k] = b[k]
        OBVIOUS
      <4> HIDE DEF b
      <4>1. CASE k = Len(first) + 1
        BY <3>1, <3>3, <3>4, <4>1
      <4>2. CASE k # Len(first) + 1
        <5>1. k \in 1..Len(first)
          BY <3>1, <4>2
        <5> QED BY <3>1, <3>3, <3>4, <5>1
      <4> QED BY <4>1, <4>2
    <3> HIDE DEF a, b
    <3>7. a = b
      BY <3>4, <3>5, <3>6, SeqEqual
    <3> QED BY <3>7 DEF a, b, longer
  <2> QED BY <2>1, <2>2 DEF first, next
<1> QED BY <1>3, <1>4, <1>5

LEMMA EndsGrow ==
  ASSUME NEW lines \in Seq(WireLines), NEW line \in WireLines
  PROVE  /\ Ends(lines) \in Nat
         /\ line = EndCard => Ends(Append(lines, line)) = Ends(lines) + 1
         /\ line # EndCard => Ends(Append(lines, line)) = Ends(lines)
<1> DEFINE n == Len(lines)
           at == {k \in DOMAIN lines : lines[k] = EndCard}
           now == {k \in DOMAIN Append(lines, line) : Append(lines, line)[k] = EndCard}
<1>1. /\ n \in Nat /\ DOMAIN lines = 1..n
      /\ DOMAIN Append(lines, line) = 1..n + 1
      /\ \A k \in 1..n : Append(lines, line)[k] = lines[k]
      /\ Append(lines, line)[n + 1] = line
  BY AppendProperties, LenProperties
<1>2. IsFiniteSet(at) /\ Cardinality(at) \in Nat
  <2>1. IsFiniteSet(1..n)
    BY <1>1, FS_Interval
  <2>2. at \in SUBSET (1..n)
    BY <1>1
  <2> QED BY <2>1, <2>2, FS_Subset, FS_CardinalityType
<1>3. ASSUME line = EndCard PROVE Cardinality(now) = Cardinality(at) + 1
  <2>1. now = at \cup {n + 1} /\ n + 1 \notin at
    BY <1>1, <1>3
  <2> HIDE DEF at, now, n
  <2> QED BY <1>2, <2>1, FS_AddElement
<1>4. ASSUME line # EndCard PROVE now = at
  BY <1>1, <1>4
<1> QED BY <1>2, <1>3, <1>4 DEF Ends

\* A line that is read is the next one on the wire.
LEMMA NextOnWire ==
  ASSUME NEW w \in Seq(Items), Origin(w), ReadSoFar(w), NEW line, Deliver(line)
  PROVE  /\ ~eof /\ eof' = eof /\ done' = done /\ source' = source
         /\ input' = Append(input, line) /\ line = wire[Len(input) + 1]
         /\ Len(input) < Len(wire) /\ line \in WireLines
         /\ input' \in Seq(WireLines) /\ IsPrefix(input', wire)
         /\ Len(input') = Len(input) + 1 /\ Len(input) \in Nat
         /\ input' # <<>> /\ input'[Len(input')] = line
         /\ line = EndCard => Ends(input') = Ends(input) + 1
         /\ line # EndCard => Ends(input') = Ends(input)
<1>1. source # Anything /\ source.text = wire
  <2>1. source.from = "a text" /\ Anything.from = "anywhere" /\ source.text = wire
    BY DEF Origin, Text, Anything
  <2> QED BY <2>1
<1>2. /\ ~eof /\ UNCHANGED <<done, source, eof>> /\ input' = Append(input, line)
      /\ Len(input) < Len(wire) /\ line = wire[Len(input) + 1]
  BY <1>1 DEF Deliver
<1>3. input \in Seq(WireLines) /\ wire \in Seq(WireLines) /\ Len(input) \in Nat
  BY LenProperties DEF ReadSoFar, Origin
<1>4. line \in WireLines
  <2>1. Len(input) + 1 \in 1..Len(wire) /\ Len(wire) \in Nat
    BY <1>2, <1>3, LenProperties
  <2> QED BY <1>2, <1>3, <2>1
<1>5. /\ input' \in Seq(WireLines) /\ Len(input') = Len(input) + 1 /\ input' # <<>>
      /\ input'[Len(input) + 1] = line
      /\ \A k \in 1..Len(input) : input'[k] = input[k]
  BY <1>2, <1>3, <1>4, AppendProperties
<1>6. IsPrefix(input', wire)
  <2>1. \A k \in 1..Len(input) : input[k] = wire[k]
    BY <1>3, PrefixIs DEF ReadSoFar
  <2>2. \A k \in 1..Len(input') : k \in 1..Len(input) \/ k = Len(input) + 1
    BY <1>3, <1>5
  <2>3. \A k \in 1..Len(input') : input'[k] = wire[k]
    BY <1>2, <1>5, <2>1, <2>2
  <2>4. Len(input') <= Len(wire)
    BY <1>2, <1>3, <1>5, LenProperties
  <2> QED BY <1>3, <1>5, <2>3, <2>4, PrefixIs
<1> QED BY <1>2, <1>3, <1>4, <1>5, <1>6, EndsGrow

\* What the next line is, by where the reader is.
LEMMA NextInText ==
  ASSUME NEW w \in Seq(Items), Origin(w), ReadSoFar(w), NEW line, Deliver(line),
         NEW m \in 0..Len(w), m # Len(w),
         NEW x \in WireLines, NEW rest \in Seq(WireLines),
         input \o Cons(x, rest) = DocTo(w, m + 1)
  PROVE  line = x /\ input' \o rest = DocTo(w, m + 1)
<1>1. /\ input' = Append(input, line) /\ line = wire[Len(input) + 1]
      /\ Len(input) < Len(wire)
  BY NextOnWire
<1>2. /\ kind = "card" /\ header \in ProdIDs \cup {DefaultProdID}
      /\ wire \in Seq(WireLines) /\ IsPrefix(wire, Writer!Document(w))
      /\ input \in Seq(WireLines)
  BY DEF Origin, ReadSoFar
<1>3. /\ Len(w) \in 0..Len(w) /\ m + 1 \in 0..Len(w)
      /\ DocTo(w, Len(w)) = Writer!Document(w)
      /\ Writer!Document(w) \in Seq(WireLines)
      /\ DocTo(w, m + 1) \in Seq(WireLines)
  BY <1>2, DocToIs, LenProperties
<1>4. IsPrefix(DocTo(w, m + 1), Writer!Document(w))
  <2>1. m + 1 \in 0..Len(w) /\ Len(w) \in 0..Len(w)
    BY <1>3
  <2> QED BY <1>2, <1>3, <2>1, DocToGrows
<1> DEFINE text == DocTo(w, m + 1)
           whole == Writer!Document(w)
<1>5. Append(input, x) \o rest = text
  BY <1>2, AppendBetween
<1> HIDE DEF text, whole
<1>6. /\ IsPrefix(Append(input, x) \o rest, whole) /\ IsPrefix(wire, whole)
      /\ whole \in Seq(WireLines)
  BY <1>2, <1>3, <1>4, <1>5 DEF text, whole
<1>7. wire[Len(input) + 1] = x
  BY <1>1, <1>2, <1>6, NextOfPrefix
<1> QED BY <1>1, <1>5, <1>7 DEF text

\* Outside a card, the next line begins one.
LEMMA NextOutside ==
  ASSUME NEW w \in Seq(Items), Origin(w), ReadSoFar(w), NEW line, Deliver(line),
         NEW m \in 0..Len(w), Position(w, m), pc # "inside"
  PROVE  /\ m # Len(w) /\ w[m + 1] \in Items /\ m + 1 \in 0..Len(w) /\ line = Begin
         /\ input' \o AfterBegin(CardOf[w[m + 1]]) = DocTo(w, m + 1)
<1>1. /\ kind = "card" /\ header \in ProdIDs \cup {DefaultProdID}
      /\ wire \in Seq(WireLines) /\ IsPrefix(wire, Writer!Document(w))
      /\ input \in Seq(WireLines) /\ Len(input) < Len(wire) /\ input = DocTo(w, m)
  BY NextOnWire DEF Origin, ReadSoFar, Position
<1>2. m # Len(w)
  <2>1. Writer!Document(w) \in Seq(WireLines) /\ DocTo(w, Len(w)) = Writer!Document(w)
    BY <1>1, DocToIs, DocumentAppend
  <2>2. Len(wire) <= Len(Writer!Document(w))
    BY <1>1, <2>1, PrefixIs
  <2>3. /\ Len(wire) \in Nat /\ Len(Writer!Document(w)) \in Nat /\ Len(input) \in Nat
    BY <1>1, <2>1, LenProperties
  <2> QED BY <1>1, <2>1, <2>2, <2>3
<1>3. /\ m + 1 \in 0..Len(w) /\ w[m + 1] \in Items
      /\ DocTo(w, m + 1) = DocTo(w, m) \o EncodeCard(CardOf[w[m + 1]])
  BY <1>1, <1>2, DocToIs
<1> DEFINE c == CardOf[w[m + 1]]
<1>4. /\ EncodeCard(c) = Cons(Begin, AfterBegin(c))
      /\ AfterBegin(c) \in Seq(WireLines) /\ Begin \in WireLines
  BY <1>3, EncodeIs, AfterTyped, CardParts DEF Cons
<1> HIDE DEF c
<1>5. input \o Cons(Begin, AfterBegin(c)) = DocTo(w, m + 1)
  BY <1>1, <1>3, <1>4 DEF c
<1>6. line = Begin /\ input' \o AfterBegin(c) = DocTo(w, m + 1)
  <2>1. m \in 0..Len(w) /\ m # Len(w) /\ AfterBegin(c) \in Seq(WireLines)
        /\ Begin \in WireLines /\ w \in Seq(Items) /\ Origin(w) /\ ReadSoFar(w)
        /\ Deliver(line)
    BY <1>2, <1>4
  <2> QED BY ONLY <1>5, <2>1, NextInText
<1> QED BY <1>2, <1>3, <1>6 DEF c

\* Inside one, it is the next field, the next property or the end.
LEMMA NextInside ==
  ASSUME NEW w \in Seq(Items), Origin(w), ReadSoFar(w), NEW line, Deliver(line),
         NEW m \in 0..Len(w), m # Len(w),
         NEW c, c = CardOf[w[m + 1]], Inside(c, DocTo(w, m + 1))
  PROVE  \/ /\ version = NoValue /\ card = EmptyCard /\ line = Plain("VERSION", Supported)
            /\ input' \o AfterVersion(c) = DocTo(w, m + 1)
         \/ /\ version = Supported /\ card = EmptyCard /\ line = Plain("UID", c.uid)
            /\ input' \o AfterUid(c) = DocTo(w, m + 1)
         \/ /\ version = Supported
            /\ card = [uid |-> c.uid, kind |-> NoValue, props |-> <<>>]
            /\ c.kind # NoValue /\ line = Plain("KIND", c.kind)
            /\ input' \o Back(c) = DocTo(w, m + 1)
         \/ /\ version = Supported
            /\ \E n \in 0..Len(c.props) :
                 /\ card = [uid |-> c.uid, kind |-> c.kind, props |-> SubSeq(c.props, 1, n)]
                 /\ n # Len(c.props) /\ line = c.props[n + 1]
                 /\ input' \o (SubSeq(c.props, (n + 1) + 1, Len(c.props)) \o <<EndCard>>)
                      = DocTo(w, m + 1)
         \/ /\ version = Supported /\ card = c
            /\ line = EndCard /\ input' = DocTo(w, m + 1)
<1> DEFINE text == DocTo(w, m + 1)
<1>1. /\ kind = "card" /\ header \in ProdIDs \cup {DefaultProdID}
      /\ input \in Seq(WireLines)
  BY DEF Origin, ReadSoFar
<1>2. w[m + 1] \in Items
  BY <1>1, DocToIs
<1>3. /\ c = [uid |-> c.uid, kind |-> c.kind, props |-> c.props]
      /\ c.props \in Seq(WireLines)
      /\ EndCard \in WireLines /\ <<EndCard>> \in Seq(WireLines)
      /\ Plain("VERSION", Supported) \in WireLines
      /\ Plain("UID", c.uid) \in WireLines /\ Plain("KIND", c.kind) \in WireLines
  BY <1>2, CardParts
<1>4. /\ Back(c) \in Seq(WireLines) /\ AfterUid(c) \in Seq(WireLines)
      /\ AfterVersion(c) \in Seq(WireLines)
  BY <1>2, AfterTyped
<1>5. ASSUME NEW x \in WireLines, NEW rest \in Seq(WireLines),
             input \o Cons(x, rest) = text
      PROVE  line = x /\ input' \o rest = text
  <2>1. /\ w \in Seq(Items) /\ Origin(w) /\ ReadSoFar(w) /\ Deliver(line)
        /\ m \in 0..Len(w) /\ m # Len(w) /\ x \in WireLines /\ rest \in Seq(WireLines)
        /\ input \o Cons(x, rest) = DocTo(w, m + 1)
    BY <1>5
  <2>2. line = x /\ input' \o rest = DocTo(w, m + 1)
    BY ONLY <2>1, NextInText
  <2> QED BY <2>2
<1> HIDE DEF text
<1>6. CASE /\ version = NoValue /\ card = EmptyCard /\ input \o AfterBegin(c) = text
  <2>1. input \o Cons(Plain("VERSION", Supported), AfterVersion(c)) = text
    BY <1>6 DEF AfterBegin, Cons
  <2>2. line = Plain("VERSION", Supported) /\ input' \o AfterVersion(c) = text
    BY <1>3, <1>4, <1>5, <2>1
  <2> QED BY <1>6, <2>2 DEF text
<1>7. CASE /\ version = Supported /\ card = EmptyCard /\ input \o AfterVersion(c) = text
  <2>1. input \o Cons(Plain("UID", c.uid), AfterUid(c)) = text
    BY <1>7 DEF AfterVersion, Cons
  <2>2. line = Plain("UID", c.uid) /\ input' \o AfterUid(c) = text
    BY <1>3, <1>4, <1>5, <2>1
  <2> QED BY <1>7, <2>2 DEF text
<1>8. CASE /\ version = Supported /\ card = [uid |-> c.uid, kind |-> NoValue, props |-> <<>>]
           /\ c.kind # NoValue /\ input \o AfterUid(c) = text
  <2>1. input \o Cons(Plain("KIND", c.kind), Back(c)) = text
    BY <1>8 DEF AfterUid, Cons
  <2>2. line = Plain("KIND", c.kind) /\ input' \o Back(c) = text
    BY <1>3, <1>4, <1>5, <2>1
  <2> QED BY <1>8, <2>2 DEF text
<1>9. ASSUME version = Supported, NEW n \in 0..Len(c.props),
             card = [uid |-> c.uid, kind |-> c.kind, props |-> SubSeq(c.props, 1, n)],
             input \o (SubSeq(c.props, n + 1, Len(c.props)) \o <<EndCard>>) = text
      PROVE  \/ /\ n # Len(c.props) /\ line = c.props[n + 1]
                /\ input' \o (SubSeq(c.props, (n + 1) + 1, Len(c.props)) \o <<EndCard>>) = text
             \/ card = c /\ line = EndCard /\ input' = text
  <2>1. CASE n # Len(c.props)
    <3> DEFINE x == c.props[n + 1]
               more == SubSeq(c.props, (n + 1) + 1, Len(c.props))
               end == <<EndCard>>
    <3>1. /\ x \in WireLines /\ n + 1 \in 0..Len(c.props)
          /\ SubSeq(c.props, n + 1, Len(c.props)) = <<x>> \o more
      BY <1>3, <2>1, CutFurther
    <3>2. more \in Seq(WireLines)
      BY <1>3, <3>1, CutInTwo
    <3>3. <<x>> \in Seq(WireLines) /\ end \in Seq(WireLines)
      BY <1>3, <3>1, ThreeLines
    <3>4. more \o end \in Seq(WireLines)
      BY <3>2, <3>3, ConcatProperties
    <3>5. input \o ((<<x>> \o more) \o end) = text
      BY <1>9, <3>1
    <3> HIDE DEF x, more, end
    <3>6. (<<x>> \o more) \o end = <<x>> \o (more \o end)
      BY ONLY <3>2, <3>3, ConcatAssociative
    <3>7. input \o Cons(x, more \o end) = text
      BY <3>5, <3>6 DEF Cons
    <3>8. line = x /\ input' \o (more \o end) = text
      BY <1>5, <3>1, <3>4, <3>7
    <3> QED BY <2>1, <3>8 DEF x, more, end
  <2>2. CASE n = Len(c.props)
    <3>1. SubSeq(c.props, n + 1, Len(c.props)) = <<>>
      <4>1. n \in Int /\ Len(c.props) < n + 1
        BY <1>3, <2>2, LenProperties
      <4> QED BY <2>2, <4>1, SubSeqEmpty
    <3>2. SubSeq(c.props, 1, n) = c.props
      BY <1>3, <2>2, SubSeqFull
    <3>3. card = c
      BY <1>3, <1>9, <3>2
    <3> DEFINE none == <<>>
               end == <<EndCard>>
    <3>4. /\ none \in Seq(WireLines) /\ none \o end = end /\ end \o none = end
          /\ input \o (none \o end) = text
      BY <1>3, <1>9, <3>1, ConcatEmptySeq, EmptySeq
    <3>5. input \o Cons(EndCard, none) = text
      BY <3>4 DEF Cons
    <3> HIDE DEF none, end
    <3>6. line = EndCard /\ input' \o none = text
      BY <1>3, <1>5, <3>4, <3>5
    <3>7. input' \o none = input'
      <4>1. input' \in Seq(WireLines)
        BY NextOnWire
      <4> QED BY <4>1, ConcatEmptySeq DEF none
    <3> QED BY <3>3, <3>6, <3>7
  <2> QED BY <2>1, <2>2
<1>10. CASE /\ version = Supported
            /\ \E n \in 0..Len(c.props) :
                 /\ card = [uid |-> c.uid, kind |-> c.kind, props |-> SubSeq(c.props, 1, n)]
                 /\ input \o (SubSeq(c.props, n + 1, Len(c.props)) \o <<EndCard>>) = text
  BY <1>9, <1>10 DEF text
<1> QED BY <1>6, <1>7, <1>8, <1>10 DEF Inside, text

LEMMA DocKept ==
  ASSUME UNCHANGED <<kind, header>>, NEW w, NEW m
  PROVE  DocTo(w, m)' = DocTo(w, m) /\ (Writer!Document(w))' = Writer!Document(w)
BY LinesKept DEF DocTo

LEMMA OriginKept ==
  ASSUME NEW w, Origin(w), UNCHANGED <<kind, header, source, acked, wire, closed>>
  PROVE  Origin(w)'
<1>1. /\ (Writer!Document(w))' = Writer!Document(w)
      /\ (Writer!Document(acked))' = Writer!Document(acked)
  BY LinesKept
<1> QED BY <1>1 DEF Origin

\* One line more, and the reader is where it has brought it.
LEMMA ReadTogether ==
  ASSUME NEW w \in Seq(Items), Origin(w), ReadSoFar(w), NEW line, Deliver(line),
         UNCHANGED <<kind, header, wire, closed, acked, failed>>, result' # "EOF",
         pc' \in {"idle", "outside", "inside"}, Len(yielded') = Ends(input'),
         NEW m \in 0..Len(w), Position(w, m)'
  PROVE  ReadSoFar(w)'
<1>1. /\ ~eof /\ eof' = eof /\ done' = done
      /\ input' \in Seq(WireLines) /\ IsPrefix(input', wire)
  BY NextOnWire
<1>2. ~failed /\ ~done
  BY <1>1 DEF ReadSoFar
<1>3. IsPrefix(input', wire')
  BY <1>1
<1>4. ~eof' => ~failed' /\ ~done' /\ result' # "EOF" /\ \E k \in 0..Len(w) : Position(w, k)'
  BY <1>1, <1>2
<1> QED BY <1>1, <1>3, <1>4 DEF ReadSoFar

LEMMA StoreFields ==
  ASSUME NEW u, NEW k, NEW ps, NEW line, NEW e, e = [uid |-> u, kind |-> k, props |-> ps],
         NEW name
  PROVE  /\ name = "UID" =>
              Store(e, line, name) = [uid |-> line.value, kind |-> k, props |-> ps]
         /\ name = "KIND" =>
              Store(e, line, name) = [uid |-> u, kind |-> line.value, props |-> ps]
         /\ name \notin {"UID", "KIND"} =>
              Store(e, line, name) = [uid |-> u, kind |-> k, props |-> Append(ps, line)]
<1>1. ASSUME NEW x
      PROVE  /\ [e EXCEPT !.uid = x] = [uid |-> x, kind |-> k, props |-> ps]
             /\ [e EXCEPT !.kind = x] = [uid |-> u, kind |-> x, props |-> ps]
             /\ [e EXCEPT !.props = x] = [uid |-> u, kind |-> k, props |-> x]
  OBVIOUS
<1>2. e.props = ps
  OBVIOUS
<1>3. ASSUME name = "UID"
      PROVE  Store(e, line, name) = [uid |-> line.value, kind |-> k, props |-> ps]
  <2>1. Store(e, line, name) = [e EXCEPT !.uid = line.value]
    BY <1>3 DEF Store
  <2> QED BY <1>1, <2>1
<1>4. ASSUME name = "KIND"
      PROVE  Store(e, line, name) = [uid |-> u, kind |-> line.value, props |-> ps]
  <2>1. Store(e, line, name) = [e EXCEPT !.kind = line.value]
    BY <1>4 DEF Store
  <2> QED BY <1>1, <2>1
<1>5. ASSUME name \notin {"UID", "KIND"}
      PROVE  Store(e, line, name) = [uid |-> u, kind |-> k, props |-> Append(ps, line)]
  <2>1. Store(e, line, name) = [e EXCEPT !.props = Append(e.props, line)]
    BY <1>5 DEF Store
  <2> QED BY <1>1, <1>2, <2>1
<1> QED BY <1>3, <1>4, <1>5

LEMMA FieldLines ==
  /\ Plain("VERSION", Supported).name = "VERSION" /\ Plain("VERSION", Supported).value = Supported
  /\ \A v : /\ Plain("UID", v).name = "UID" /\ Plain("UID", v).value = v
            /\ Plain("KIND", v).name = "KIND" /\ Plain("KIND", v).value = v
            /\ Plain("UID", v) \notin {Begin, Garbled, EndCard}
            /\ Plain("KIND", v) \notin {Begin, Garbled, EndCard}
  /\ Plain("VERSION", Supported) \notin {Begin, Garbled, EndCard}
<1>1. ASSUME NEW name, NEW v
      PROVE  Plain(name, v).name = name /\ Plain(name, v).value = v
  BY DEF Plain, Bare
<1>2. Begin.name = "BEGIN" /\ EndCard.name = "END" /\ Garbled.name = "garbled"
  BY DEF Begin, EndCard, Garbled, Bare
<1> QED BY <1>1, <1>2

\* The properties follow the last field.
LEMMA AtProperties ==
  ASSUME NEW i \in Items, NEW c, c = CardOf[i], NEW text,
         input' \o Back(c) = text', version' = Supported,
         card' = [uid |-> c.uid, kind |-> c.kind, props |-> <<>>]
  PROVE  Inside(c, text)'
<1>1. c.props \in Seq(WireLines)
  BY CardParts
<1>2. /\ SubSeq(c.props, 1, 0) = <<>> /\ SubSeq(c.props, 0 + 1, Len(c.props)) = c.props
      /\ 0 \in 0..Len(c.props)
  <2>1. Len(c.props) \in Nat
    BY <1>1, LenProperties
  <2>2. SubSeq(c.props, 1, 0) = <<>>
    BY SubSeqEmpty
  <2>3. 0 + 1 = 1
    OBVIOUS
  <2> QED BY <1>1, <2>1, <2>2, <2>3, SubSeqFull
<1>3. /\ card' = [uid |-> c.uid, kind |-> c.kind, props |-> SubSeq(c.props, 1, 0)]
      /\ input' \o (SubSeq(c.props, 0 + 1, Len(c.props)) \o <<EndCard>>) = text'
  BY <1>2 DEF Back
<1> QED BY <1>2, <1>3 DEF Inside

LEMMA GotBegin ==
  ASSUME NEW w \in Seq(Items), Origin(w), ReadSoFar(w), ReadBegin,
         UNCHANGED <<kind, header, wire, closed, acked>>
  PROVE  ReadSoFar(w)'
<1>1. /\ Deliver(Begin) /\ pc = "outside" /\ pc' = "inside" /\ card' = EmptyCard
      /\ version' = NoValue /\ UNCHANGED <<result, yielded, failed>>
  BY DEF ReadBegin
<1>2. /\ ~eof /\ input' # <<>> /\ input'[Len(input')] = Begin /\ Begin # EndCard
      /\ Ends(input') = Ends(input)
  BY <1>1, NextOnWire, CardLines
<1>3. PICK m \in 0..Len(w) : Position(w, m)
  BY <1>2 DEF ReadSoFar
<1>4. /\ m # Len(w) /\ input' \o AfterBegin(CardOf[w[m + 1]]) = DocTo(w, m + 1)
  BY <1>1, <1>3, NextOutside
<1>5. Inside(CardOf[w[m + 1]], DocTo(w, m + 1))'
  BY <1>1, <1>4, DocKept DEF Inside
<1>6. Position(w, m)'
  <2>1. m < Len(w) /\ yielded' = CardsOf(SubSeq(w, 1, m))
    BY <1>1, <1>3, <1>4, LenProperties DEF Position
  <2> QED BY <1>1, <1>2, <1>5, <2>1 DEF Position
<1>7. Len(yielded') = Ends(input') /\ result' # "EOF"
  BY <1>1, <1>2 DEF ReadSoFar
<1> QED BY <1>1, <1>3, <1>6, <1>7, ReadTogether

LEMMA NoStray ==
  ASSUME NEW w \in Seq(Items), Origin(w), ReadSoFar(w)
  PROVE  ~ReadStray
<1> SUFFICES ASSUME ReadStray PROVE FALSE
  OBVIOUS
<1>1. PICK line \in Lines \ {Begin} : Deliver(line)
  BY DEF ReadStray
<1>2. ~eof /\ pc # "inside"
  BY <1>1, NextOnWire DEF ReadStray
<1>3. PICK m \in 0..Len(w) : Position(w, m)
  BY <1>2 DEF ReadSoFar
<1> QED BY <1>1, <1>2, <1>3, NextOutside

\* Inside a card of the text.
LEMMA InCard ==
  ASSUME NEW w \in Seq(Items), Origin(w), ReadSoFar(w), ~eof, pc = "inside"
  PROVE  \E m \in 0..Len(w) :
           /\ Position(w, m) /\ m # Len(w) /\ m + 1 \in 0..Len(w)
           /\ w[m + 1] \in Items /\ Inside(CardOf[w[m + 1]], DocTo(w, m + 1))
<1>1. PICK m \in 0..Len(w) : Position(w, m)
  BY DEF ReadSoFar
<1>2. m < Len(w) /\ Inside(CardOf[w[m + 1]], DocTo(w, m + 1))
  BY <1>1 DEF Position
<1>3. m # Len(w)
  BY <1>2, LenProperties
<1>4. m + 1 \in 0..Len(w) /\ w[m + 1] \in Items
  BY <1>3, CutFurther
<1> QED BY <1>1, <1>2, <1>3, <1>4

LEMMA NoNestedOrGarbled ==
  ASSUME NEW w \in Seq(Items), Origin(w), ReadSoFar(w)
  PROVE  ~ReadNestedOrGarbled
<1> SUFFICES ASSUME ReadNestedOrGarbled PROVE FALSE
  OBVIOUS
<1>1. PICK line \in {Begin, Garbled} : Deliver(line)
  BY DEF ReadNestedOrGarbled
<1>2. ~eof /\ pc = "inside"
  BY <1>1, NextOnWire DEF ReadNestedOrGarbled
<1>3. PICK m \in 0..Len(w) :
        /\ m # Len(w) /\ w[m + 1] \in Items /\ Inside(CardOf[w[m + 1]], DocTo(w, m + 1))
  BY <1>2, InCard
<1> DEFINE c == CardOf[w[m + 1]]
<1>4. \/ line = Plain("VERSION", Supported)
      \/ line = Plain("UID", c.uid)
      \/ line = Plain("KIND", c.kind)
      \/ \E n \in 0..Len(c.props) : n # Len(c.props) /\ line = c.props[n + 1]
      \/ line = EndCard
  BY <1>1, <1>3, NextInside
<1>5. ASSUME NEW n \in 0..Len(c.props), n # Len(c.props) PROVE c.props[n + 1] \in PropertyLines
  <2>1. c.props \in Seq(PropertyLines)
    BY <1>3, CardParts
  <2> HIDE DEF c
  <2> QED BY <1>5, <2>1, CutFurther
<1>6. /\ Begin # EndCard /\ Garbled # EndCard
      /\ Begin \notin PropertyLines /\ Garbled \notin PropertyLines
  BY CardLines
<1> HIDE DEF c
<1> QED BY <1>1, <1>4, <1>5, <1>6, FieldLines

LEMMA GotProperty ==
  ASSUME CardPropertiesAssumption,
         NEW w \in Seq(Items), Origin(w), ReadSoFar(w), ReadProperty,
         UNCHANGED <<kind, header, wire, closed, acked>>
  PROVE  ReadSoFar(w)'
<1>1. PICK line \in PropertyLines :
        /\ Deliver(line)
        /\ IF line.name = "VERSION"
           THEN IF version # NoValue
                THEN Fail("malformed")
                ELSE /\ version' = line.value
                     /\ UNCHANGED <<pc, card, result, yielded, failed>>
           ELSE /\ card' = Store(card, line, line.name)
                /\ UNCHANGED <<pc, version, result, yielded, failed>>
  BY DEF ReadProperty, StreamName
<1>2. /\ ~eof /\ pc = "inside" /\ input' # <<>> /\ input'[Len(input')] = line
      /\ line # EndCard /\ Ends(input') = Ends(input)
  BY <1>1, NextOnWire, CardLines DEF ReadProperty
<1>3. PICK m \in 0..Len(w) :
        /\ Position(w, m) /\ m # Len(w)
        /\ w[m + 1] \in Items /\ Inside(CardOf[w[m + 1]], DocTo(w, m + 1))
  BY <1>2, InCard
<1> DEFINE c == CardOf[w[m + 1]]
           text == DocTo(w, m + 1)
<1>4. /\ c = [uid |-> c.uid, kind |-> c.kind, props |-> c.props]
      /\ c.props \in Seq(WireLines)
  BY <1>3, CardParts
<1>5. text' = text
  BY DocKept
<1>6. /\ Inside(c, text)' /\ UNCHANGED <<pc, result, yielded, failed>>
  <2>1. CASE /\ version = NoValue /\ card = EmptyCard /\ line = Plain("VERSION", Supported)
             /\ input' \o AfterVersion(c) = text
    <3>1. /\ version' = Supported /\ UNCHANGED <<pc, card, result, yielded, failed>>
      BY <1>1, <2>1, FieldLines
    <3> QED BY <1>5, <2>1, <3>1 DEF Inside
  <2>2. CASE /\ version = Supported /\ card = EmptyCard /\ line = Plain("UID", c.uid)
             /\ input' \o AfterUid(c) = text
    <3>1. line.name = "UID" /\ line.value = c.uid
      BY <2>2, FieldLines
    <3>2. card' = Store(card, line, line.name) /\ version' = Supported
          /\ UNCHANGED <<pc, result, yielded, failed>>
      BY <1>1, <2>2, <3>1
    <3>3. card' = [uid |-> c.uid, kind |-> NoValue, props |-> <<>>]
      <4> DEFINE none == <<>>
                 u == c.uid
                 name == line.name
      <4>1. card = [uid |-> NoValue, kind |-> NoValue, props |-> none]
        BY <2>2 DEF EmptyCard
      <4>2. name = "UID" /\ line.value = u /\ card' = Store(card, line, name)
        BY <3>1, <3>2
      <4> HIDE DEF none, u, name, c
      <4>3. Store(card, line, name) = [uid |-> line.value, kind |-> NoValue, props |-> none]
        BY <4>1, <4>2, StoreFields
      <4>4. card' = [uid |-> u, kind |-> NoValue, props |-> none]
        BY <4>2, <4>3
      <4> QED BY <4>4 DEF none, u
    <3>4. CASE c.kind # NoValue
      BY <1>5, <2>2, <3>2, <3>3, <3>4 DEF Inside
    <3>5. CASE c.kind = NoValue
      <4>1. AfterUid(c) = Back(c)
        <5>1. Back(c) \in Seq(WireLines)
          BY <1>3, AfterTyped
        <5>2. <<>> \o Back(c) = Back(c)
          BY <5>1, ConcatEmptySeq
        <5> QED BY <3>5, <5>2 DEF AfterUid
      <4>2. input' \o Back(c) = text'
        BY <1>5, <2>2, <4>1
      <4>3. card' = [uid |-> c.uid, kind |-> c.kind, props |-> <<>>]
        BY <3>3, <3>5
      <4> QED BY <1>3, <3>2, <4>2, <4>3, AtProperties
    <3> QED BY <3>4, <3>5
  <2>3. CASE /\ version = Supported
             /\ card = [uid |-> c.uid, kind |-> NoValue, props |-> <<>>]
             /\ c.kind # NoValue /\ line = Plain("KIND", c.kind)
             /\ input' \o Back(c) = text
    <3>1. line.name = "KIND" /\ line.value = c.kind
      BY <2>3, FieldLines
    <3>2. card' = Store(card, line, line.name) /\ version' = Supported
          /\ UNCHANGED <<pc, result, yielded, failed>>
      BY <1>1, <2>3, <3>1
    <3>3. card' = [uid |-> c.uid, kind |-> c.kind, props |-> <<>>]
      <4> DEFINE none == <<>>
                 u == c.uid
                 k == c.kind
                 name == line.name
      <4>1. card = [uid |-> u, kind |-> NoValue, props |-> none]
        BY <2>3
      <4>2. name = "KIND" /\ line.value = k /\ card' = Store(card, line, name)
        BY <3>1, <3>2
      <4> HIDE DEF none, u, k, name, c
      <4>3. Store(card, line, name) = [uid |-> u, kind |-> line.value, props |-> none]
        BY <4>1, <4>2, StoreFields
      <4>4. card' = [uid |-> u, kind |-> k, props |-> none]
        BY <4>2, <4>3
      <4> QED BY <4>4 DEF none, u, k
    <3>4. input' \o Back(c) = text'
      BY <1>5, <2>3
    <3> QED BY <1>3, <3>2, <3>3, <3>4, AtProperties
  <2>4. ASSUME version = Supported, NEW n \in 0..Len(c.props),
               card = [uid |-> c.uid, kind |-> c.kind, props |-> SubSeq(c.props, 1, n)],
               n # Len(c.props), line = c.props[n + 1],
               input' \o (SubSeq(c.props, (n + 1) + 1, Len(c.props)) \o <<EndCard>>) = text
        PROVE  /\ Inside(c, text)' /\ UNCHANGED <<pc, result, yielded, failed>>
    <3>1. /\ n + 1 \in 0..Len(c.props)
          /\ SubSeq(c.props, 1, n + 1) = Append(SubSeq(c.props, 1, n), line)
      BY <1>4, <2>4, CutFurther
    <3>2. line.name = "X"
      <4>1. n + 1 \in DOMAIN c.props
        BY <1>4, <2>4, <3>1, LenProperties
      <4> QED BY <1>3, <2>4, <4>1 DEF CardPropertiesAssumption
    <3>3. card' = Store(card, line, line.name) /\ version' = Supported
          /\ UNCHANGED <<pc, result, yielded, failed>>
      BY <1>1, <2>4, <3>2
    <3>4. card' = [uid |-> c.uid, kind |-> c.kind,
                   props |-> Append(SubSeq(c.props, 1, n), line)]
      <4> DEFINE ps == SubSeq(c.props, 1, n)
                 u == c.uid
                 k == c.kind
                 name == line.name
      <4>1. card = [uid |-> u, kind |-> k, props |-> ps]
        BY <2>4
      <4>2. name \notin {"UID", "KIND"} /\ card' = Store(card, line, name)
        BY <3>2, <3>3
      <4> HIDE DEF ps, u, k, name, c
      <4>3. Store(card, line, name) = [uid |-> u, kind |-> k, props |-> Append(ps, line)]
        <5>1. Store(card, line, name) = [card EXCEPT !.props = Append(card.props, line)]
          BY <4>2 DEF Store
        <5>2. card.props = ps
          BY <4>1
        <5> DEFINE longer == Append(ps, line)
        <5>3. Store(card, line, name) = [card EXCEPT !.props = longer]
          BY <5>1, <5>2
        <5> HIDE DEF longer
        <5>4. Store(card, line, name) = [uid |-> u, kind |-> k, props |-> longer]
          BY <4>1, <5>3
        <5> QED BY <5>4 DEF longer
      <4>4. card' = [uid |-> u, kind |-> k, props |-> Append(ps, line)]
        BY <4>2, <4>3
      <4> QED BY <4>4 DEF ps, u, k
    <3>5. card' = [uid |-> c.uid, kind |-> c.kind, props |-> SubSeq(c.props, 1, n + 1)]
      BY <3>1, <3>4
    <3>6. input' \o (SubSeq(c.props, (n + 1) + 1, Len(c.props)) \o <<EndCard>>) = text'
      BY <1>5, <2>4
    <3>7. Inside(c, text)'
      <4> HIDE DEF c, text
      <4> QED BY <3>1, <3>3, <3>5, <3>6 DEF Inside
    <3> QED BY <3>3, <3>7
  <2> HIDE DEF c, text
  <2>5. \/ /\ version = NoValue /\ card = EmptyCard /\ line = Plain("VERSION", Supported)
           /\ input' \o AfterVersion(c) = text
        \/ /\ version = Supported /\ card = EmptyCard /\ line = Plain("UID", c.uid)
           /\ input' \o AfterUid(c) = text
        \/ /\ version = Supported
           /\ card = [uid |-> c.uid, kind |-> NoValue, props |-> <<>>]
           /\ c.kind # NoValue /\ line = Plain("KIND", c.kind)
           /\ input' \o Back(c) = text
        \/ /\ version = Supported
           /\ \E n \in 0..Len(c.props) :
                /\ card = [uid |-> c.uid, kind |-> c.kind, props |-> SubSeq(c.props, 1, n)]
                /\ n # Len(c.props) /\ line = c.props[n + 1]
                /\ input' \o (SubSeq(c.props, (n + 1) + 1, Len(c.props)) \o <<EndCard>>) = text
        \/ /\ version = Supported /\ card = c /\ line = EndCard /\ input' = text
    BY <1>1, <1>3, NextInside DEF c, text
  <2> QED BY <1>2, <2>1, <2>2, <2>3, <2>4, <2>5
<1>7. Position(w, m)'
  <2>1. /\ m < Len(w) /\ yielded' = CardsOf(SubSeq(w, 1, m)) /\ pc' = "inside"
    BY <1>2, <1>3, <1>6, LenProperties DEF Position
  <2> QED BY <1>2, <1>6, <2>1 DEF Position
<1>8. Len(yielded') = Ends(input') /\ result' # "EOF" /\ failed' = failed /\ pc' = "inside"
  BY <1>2, <1>6 DEF ReadSoFar
<1> QED BY <1>1, <1>3, <1>7, <1>8, ReadTogether

LEMMA GotEnd ==
  ASSUME NEW w \in Seq(Items), Origin(w), ReadSoFar(w), ReadEnd,
         UNCHANGED <<kind, header, wire, closed, acked>>
  PROVE  ReadSoFar(w)'
<1>1. Deliver(EndCard) /\ pc = "inside"
  BY DEF ReadEnd
<1>2. ~eof /\ Ends(input') = Ends(input) + 1
  BY <1>1, NextOnWire
<1>3. PICK m \in 0..Len(w) :
        /\ Position(w, m) /\ m # Len(w) /\ m + 1 \in 0..Len(w)
        /\ w[m + 1] \in Items /\ Inside(CardOf[w[m + 1]], DocTo(w, m + 1))
  BY <1>1, <1>2, InCard
<1> DEFINE c == CardOf[w[m + 1]]
<1>4. version = Supported /\ card = c /\ input' = DocTo(w, m + 1)
  <2>1. ASSUME NEW n \in 0..Len(c.props), n # Len(c.props) PROVE c.props[n + 1] # EndCard
    <3>1. c.props \in Seq(PropertyLines)
      BY <1>3, CardParts
    <3> HIDE DEF c
    <3> QED BY <2>1, <3>1, CutFurther, CardLines
  <2>2. \/ EndCard = Plain("VERSION", Supported)
        \/ EndCard = Plain("UID", c.uid)
        \/ EndCard = Plain("KIND", c.kind)
        \/ \E n \in 0..Len(c.props) : n # Len(c.props) /\ EndCard = c.props[n + 1]
        \/ version = Supported /\ card = c /\ input' = DocTo(w, m + 1)
    BY <1>1, <1>3, NextInside
  <2> HIDE DEF c
  <2> QED BY <2>1, <2>2, FieldLines
<1>5. /\ pc' = "idle" /\ result' = "card" /\ yielded' = Append(yielded, card)
      /\ failed' = failed
  BY <1>4, CardAssumption DEF ReadEnd
<1>6. /\ yielded = CardsOf(SubSeq(w, 1, m)) /\ Len(CardsOf(SubSeq(w, 1, m))) = m
      /\ CardsOf(SubSeq(w, 1, m + 1)) = Append(CardsOf(SubSeq(w, 1, m)), c)
      /\ Len(CardsOf(SubSeq(w, 1, m + 1))) = m + 1
  BY <1>3, CardsOfFirst DEF Position
<1>7. yielded' = CardsOf(SubSeq(w, 1, m + 1)) /\ Len(yielded') = Ends(input')
  <2>1. Len(yielded) = Ends(input)
    BY DEF ReadSoFar
  <2> QED BY <1>2, <1>4, <1>5, <1>6, <2>1
<1>8. Position(w, m + 1)'
  <2>1. DocTo(w, m + 1)' = DocTo(w, m + 1)
    BY DocKept
  <2> QED BY <1>4, <1>5, <1>7, <2>1 DEF Position
<1> QED BY <1>1, <1>3, <1>5, <1>7, <1>8, ReadTogether

\* All of the items but the last were acknowledged.
LEMMA AckedFirst ==
  ASSUME NEW w \in Seq(Items), Origin(w)
  PROVE  /\ Len(acked) \in 0..Len(w) /\ SubSeq(w, 1, Len(acked)) = acked
         /\ DocTo(w, Len(acked)) = Writer!Document(acked)
<1>1. PICK i \in Items : w = Append(acked, i)
  BY DEF Origin
<1>2. acked \in Seq(Items)
  BY DEF Origin
<1>3. /\ Len(acked) \in Nat /\ Len(w) = Len(acked) + 1 /\ Len(acked) \in 0..Len(w)
      /\ \A k \in 1..Len(acked) : w[k] = acked[k]
  BY <1>1, <1>2, AppendProperties, LenProperties
<1>4. /\ SubSeq(w, 1, Len(acked)) \in Seq(Items)
      /\ Len(SubSeq(w, 1, Len(acked))) = Len(acked)
  BY <1>3, CutInTwo
<1>5. \A k \in 1..Len(acked) : SubSeq(w, 1, Len(acked))[k] = w[k]
  BY <1>3
<1>6. SubSeq(w, 1, Len(acked)) = acked
  BY <1>2, <1>3, <1>4, <1>5, SeqEqual
<1> QED BY <1>3, <1>6 DEF DocTo

\* The end of the lines, met inside a card or not.
LEMMA GotEnds ==
  ASSUME NEW w \in Seq(Items), Origin(w), ReadSoFar(w), ~eof, input = wire,
         NEW m \in 0..Len(w), Position(w, m)
  PROVE  /\ pc = "inside" <=> Cut
         /\ closed => pc # "inside" /\ yielded = CardsOf(acked)
<1>1. kind = "card" /\ header \in ProdIDs \cup {DefaultProdID}
  BY DEF Origin
<1>2. /\ Len(acked) \in 0..Len(w) /\ SubSeq(w, 1, Len(acked)) = acked
      /\ DocTo(w, Len(acked)) = Writer!Document(acked)
  BY AckedFirst
<1>3. \A n \in 0..Len(w) : DocTo(w, n) = <<>> \/ DocTo(w, n)[Len(DocTo(w, n))] = EndCard
  BY <1>1, DocToEnds
<1>4. Cut <=> input # <<>> /\ input[Len(input)] # EndCard
  BY DEF Cut, Last
<1>5. pc = "inside" => Cut
  BY <1>4 DEF Position
<1>6. pc # "inside" => ~Cut
  BY <1>3, <1>4 DEF Position
<1>7. ASSUME closed PROVE pc # "inside" /\ yielded = CardsOf(acked)
  <2>1. input = DocTo(w, Len(acked))
    BY <1>2, <1>7 DEF Origin
  <2>2. ~Cut
    BY <1>2, <1>3, <1>4, <2>1
  <2>3. pc # "inside" /\ input = DocTo(w, m) /\ yielded = CardsOf(SubSeq(w, 1, m))
    BY <1>5, <2>2 DEF Position
  <2>4. m = Len(acked)
    <3>1. CASE m <= Len(acked)
      <4>1. m \in 0..Len(acked)
        BY <1>2, <3>1
      <4>2. m # Len(acked) => Len(DocTo(w, m)) < Len(DocTo(w, Len(acked)))
        BY <1>1, <1>2, <4>1, DocToGrows
      <4>3. Len(input) \in Nat
        BY LenProperties DEF ReadSoFar
      <4> QED BY <2>1, <2>3, <4>2, <4>3
    <3>2. CASE Len(acked) <= m
      <4>1. Len(acked) \in 0..m
        BY <1>2, <3>2
      <4>2. m # Len(acked) => Len(DocTo(w, Len(acked))) < Len(DocTo(w, m))
        BY <1>1, <4>1, DocToGrows
      <4>3. Len(input) \in Nat
        BY LenProperties DEF ReadSoFar
      <4> QED BY <2>1, <2>3, <4>2, <4>3
    <3>3. m \in Nat /\ Len(acked) \in Nat
      BY <1>2, LenProperties
    <3>4. m <= Len(acked) \/ Len(acked) <= m
      BY <3>3
    <3> QED BY <3>1, <3>2, <3>4
  <2> QED BY <1>2, <2>3, <2>4
<1> QED BY <1>5, <1>6, <1>7

LEMMA GotEOF ==
  ASSUME NEW w \in Seq(Items), Origin(w), ReadSoFar(w), ReadEOF,
         UNCHANGED <<kind, header, wire, closed, acked>>
  PROVE  ReadSoFar(w)'
<1>1. /\ pc # "idle" /\ eof' /\ input' = input /\ pc' = "idle" /\ yielded' = yielded
      /\ pc = "outside" => failed' = failed
      /\ pc # "outside" => failed'
  BY DEF ReadEOF, Fail
<1>2. input = wire
  <2>1. source.from = "a text" /\ Anything.from = "anywhere" /\ source.text = wire
    BY DEF Origin, Text, Anything
  <2> QED BY <2>1 DEF ReadEOF
<1>3. Cut' = Cut /\ CardsOf(acked)' = CardsOf(acked) /\ Ends(input)' = Ends(input)
  BY <1>1 DEF Cut, CardsOf, Ends
<1>4. CASE eof
  <2>1. /\ pc # "inside" /\ (failed <=> Cut) /\ (closed => yielded = CardsOf(acked))
        /\ \E m \in 0..Len(w) : yielded = CardsOf(SubSeq(w, 1, m))
    BY <1>4 DEF ReadSoFar
  <2>2. pc = "outside"
    BY <1>1, <2>1 DEF ReadSoFar
  <2> QED BY <1>1, <1>2, <1>3, <2>1, <2>2 DEF ReadSoFar
<1>5. CASE ~eof
  <2>1. PICK m \in 0..Len(w) : Position(w, m)
    BY <1>5 DEF ReadSoFar
  <2>2. /\ pc = "inside" <=> Cut
        /\ closed => pc # "inside" /\ yielded = CardsOf(acked)
    BY <1>2, <1>5, <2>1, GotEnds
  <2>3. ~failed /\ pc \in {"outside", "inside"}
    BY <1>1, <1>5 DEF ReadSoFar
  <2>4. failed' <=> Cut'
    BY <1>1, <1>3, <2>2, <2>3
  <2>5. yielded = CardsOf(SubSeq(w, 1, m))
    BY <2>1 DEF Position
  <2> QED BY <1>1, <1>2, <1>3, <2>1, <2>2, <2>4, <2>5 DEF ReadSoFar
<1> QED BY <1>4, <1>5

\* Before the first line, and wherever no line is read.
LEMMA GotCall ==
  ASSUME NEW w \in Seq(Items), Origin(w), ReadSoFar(w), Call,
         UNCHANGED <<kind, header, wire, closed, acked>>
  PROVE  ReadSoFar(w)'
<1>1. /\ pc = "idle" /\ UNCHANGED <<done, card, version, eof, yielded, failed, input>>
      /\ \/ done /\ result' = "EOF" /\ pc' = pc
         \/ ~done /\ result' = result /\ pc' = "outside"
  BY DEF Call, reading
<1>2. Cut' = Cut /\ CardsOf(acked)' = CardsOf(acked) /\ Ends(input)' = Ends(input)
  BY <1>1 DEF Cut, CardsOf, Ends
<1>3. ~eof => \A m \in 0..Len(w) : Position(w, m) => Position(w, m)'
  <2> SUFFICES ASSUME NEW m \in 0..Len(w), Position(w, m) PROVE Position(w, m)'
    OBVIOUS
  <2>1. DocTo(w, m)' = DocTo(w, m)
    BY DocKept
  <2> QED BY <1>1, <2>1 DEF Position
<1>4. ~eof => ~done /\ result # "EOF" /\ ~failed /\ \E m \in 0..Len(w) : Position(w, m)
  BY DEF ReadSoFar
<1>5. ~eof' => ~failed' /\ ~done' /\ result' # "EOF" /\ \E m \in 0..Len(w) : Position(w, m)'
  BY <1>1, <1>3, <1>4
<1>6. /\ input' \in Seq(WireLines) /\ pc' \in {"idle", "outside", "inside"} /\ pc' # "inside"
      /\ IsPrefix(input', wire') /\ Len(yielded') = Ends(input')
  BY <1>1, <1>2 DEF ReadSoFar
<1>7. eof' => /\ input' = wire' /\ (failed' <=> Cut') /\ (closed' => yielded' = CardsOf(acked)')
              /\ \E m \in 0..Len(w) : yielded' = CardsOf(SubSeq(w, 1, m))
  BY <1>1, <1>2 DEF ReadSoFar
<1> QED BY <1>5, <1>6, <1>7 DEF ReadSoFar

LEMMA SourcesApart ==
  /\ NoSource # Anything
  /\ \A lines : Text(lines) \notin {NoSource, Anything}
<1>1. NoSource.from = "nowhere" /\ Anything.from = "anywhere"
  BY DEF NoSource, Anything
<1>2. \A lines : Text(lines).from = "a text"
  BY DEF Text
<1>3. NoSource # Anything
  BY <1>1
<1>4. ASSUME NEW lines PROVE Text(lines) # NoSource /\ Text(lines) # Anything
  <2>1. Text(lines).from = "a text"
    BY <1>2
  <2> QED BY <1>1, <2>1
<1> QED BY <1>3, <1>4

\* The lines the sink accepted come from the acknowledged items and one more.
LEMMA StopOrigin ==
  ASSUME EncInv, Stop
  PROVE  \E w \in {Append(acked, i) : i \in Items} : Origin(w)'
<1>1. /\ kind = "card" /\ source' = Text(wire)
      /\ UNCHANGED <<kind, header, closed, wire, acked>>
  BY DEF Stop
<1>2. /\ header \in ProdIDs \cup {DefaultProdID} /\ wire \in Seq(WireLines)
      /\ acked \in Seq(Items)
  BY DEF EncInv, EncTypes
<1>3. Writer!TrailerLines = <<>>
  BY <1>1 DEF Writer!TrailerLines
<1>4. Writer!Document(acked) \in Seq(WireLines)
  BY <1>2, DocumentAppend
<1>5. Writer!Document(acked) \o Writer!TrailerLines = Writer!Document(acked)
  BY <1>3, <1>4, ConcatEmptySeq
<1>6. /\ closed => wire = Writer!Document(acked)
      /\ \E i \in Items : \/ IsPrefix(wire, Writer!Document(acked) \o Writer!ItemLines(i))
                          \/ IsPrefix(wire, Writer!Document(acked))
  <2>1. Writer!WireIsADocumentPrefix /\ Writer!AcknowledgedIsOnWire
    BY EncInvSafe
  <2>2. \E i \in Items :
          \/ IsPrefix(wire, Writer!Document(acked) \o Writer!ItemLines(i))
          \/ IsPrefix(wire, Writer!Document(acked) \o Writer!TrailerLines)
    BY <2>1 DEF Writer!WireIsADocumentPrefix, Writer!IsPrefix, IsPrefix
  <2>3. closed => wire = Writer!Document(acked) \o Writer!TrailerLines
    BY <2>1 DEF Writer!AcknowledgedIsOnWire
  <2> QED BY <1>5, <2>2, <2>3
<1>7. PICK i \in Items : \/ IsPrefix(wire, Writer!Document(acked) \o Writer!ItemLines(i))
                         \/ IsPrefix(wire, Writer!Document(acked))
  BY <1>6
<1>8. Writer!ItemLines(i) \in Seq(WireLines)
  BY ItemTyped
<1>9. IsPrefix(wire, Writer!Document(acked) \o Writer!ItemLines(i))
  <2>1. CASE IsPrefix(wire, Writer!Document(acked))
    BY <1>2, <1>4, <1>8, <2>1, PrefixConcat
  <2> QED BY <1>7, <2>1
<1>10. PICK w : w = Append(acked, i)
  OBVIOUS
<1>11. IsPrefix(wire, Writer!Document(w))
  BY <1>2, <1>9, <1>10, DocumentAppend
<1>12. /\ (Writer!Document(w))' = Writer!Document(w)
       /\ (Writer!Document(acked))' = Writer!Document(acked)
  BY <1>1, LinesKept
<1>13. IsPrefix(wire', (Writer!Document(w))')
  BY <1>1, <1>11, <1>12
<1>14. closed' => wire' = (Writer!Document(acked))'
  BY <1>1, <1>6, <1>12
<1>15. \E j \in Items : w = Append(acked', j)
  BY <1>1, <1>10
<1>16. Origin(w)'
  BY <1>1, <1>2, <1>13, <1>14, <1>15 DEF Origin
<1> QED BY <1>10, <1>16

LEMMA GotStop ==
  ASSUME EncInv, Unread, Stop
  PROVE  GotInv'
<1>1. PICK w \in {Append(acked, i) : i \in Items} : Origin(w)'
  BY StopOrigin
<1>2. /\ UNCHANGED <<kind, header, wire, acked, pc, yielded, input, result, eof, failed, done>>
  BY DEF Stop, parser, reading
<1>3. /\ acked \in Seq(Items) /\ wire \in Seq(WireLines)
      /\ header \in ProdIDs \cup {DefaultProdID} /\ kind = "card"
  BY DEF EncInv, EncTypes, Stop
<1>4. w \in Seq(Items) /\ 0 \in 0..Len(w)
  <2>1. w \in Seq(Items) /\ Len(w) \in Nat
    BY <1>1, <1>3, AppendProperties, LenProperties
  <2> QED BY <2>1
<1>5. DocTo(w, 0) = <<>> /\ CardsOf(SubSeq(w, 1, 0)) = <<>>
  BY <1>3, <1>4, DocToIs, CardsOfFirst
<1>6. Ends(input) = 0
  <2>1. {k \in DOMAIN input : input[k] = EndCard} = {}
    BY DEF Unread
  <2> QED BY <2>1, FS_EmptySet DEF Ends
<1>7. Position(w, 0)'
  <2>1. DocTo(w, 0)' = <<>>
    BY <1>2, <1>5, DocKept
  <2>2. yielded' = CardsOf(SubSeq(w, 1, 0)) /\ pc' # "inside" /\ input' = <<>>
    BY <1>2, <1>5 DEF Unread
  <2> QED BY <2>1, <2>2 DEF Position
<1>8. input' \in Seq(WireLines) /\ Len(yielded') = 0 /\ IsPrefix(input', wire')
  <2>1. <<>> \in Seq(WireLines) /\ Len(<<>>) = 0
    OBVIOUS
  <2>2. input' = <<>> /\ yielded' = <<>> /\ wire' = wire
    BY <1>2 DEF Unread
  <2> QED BY <1>3, <2>1, <2>2, PrefixEmpty
<1>9. ReadSoFar(w)'
  <2>1. Ends(input)' = 0
    BY <1>2, <1>6 DEF Ends
  <2>2. pc' = "idle" /\ ~eof' /\ ~failed' /\ ~done' /\ result' # "EOF"
    BY <1>2 DEF Unread
  <2>3. \E m \in 0..Len(w) : Position(w, m)'
    BY <1>4, <1>7
  <2> QED BY <1>8, <2>1, <2>2, <2>3 DEF ReadSoFar
<1>10. source' \notin {NoSource, Anything}
  BY SourcesApart DEF Stop
<1>11. w \in {Append(acked', j) : j \in Items}
  BY <1>1, <1>2
<1> QED BY <1>1, <1>9, <1>10, <1>11 DEF GotInv

LEMMA GotRead ==
  ASSUME CardPropertiesAssumption,
         NEW w \in Seq(Items), Origin(w), ReadSoFar(w), Call \/ Read,
         UNCHANGED <<kind, header, wire, closed, acked>>
  PROVE  ReadSoFar(w)'
<1>1. ~ReadError
  <2>1. source.from = "a text" /\ Anything.from = "anywhere"
    BY DEF Origin, Text, Anything
  <2> QED BY <2>1 DEF ReadError
<1> QED BY <1>1, GotCall, GotBegin, NoStray, GotProperty, NoNestedOrGarbled, GotEnd, GotEOF
        DEF Read

LEMMA GotStep ==
  ASSUME CardPropertiesAssumption, WireInv, GotInv, [ExNext]_exVars
  PROVE  GotInv'
<1>1. CASE NextCall \/ ReadLine
  <2>1. /\ UNCHANGED <<kind, header, wire, closed, acked>> /\ source' = source
        /\ Call \/ Read
    BY <1>1, ReaderLeavesEncoder DEF NextCall, ReadLine
  <2>2. source # NoSource
    <3>1. CASE Call
      BY <3>1 DEF Call
    <3>2. CASE Read
      <4>1. pc # "idle"
        BY <3>2 DEF Read, ReadBegin, ReadStray, ReadProperty, ReadNestedOrGarbled,
                    ReadEnd, ReadEOF, ReadError
      <4> QED BY <4>1 DEF GotInv, Unread
    <3> QED BY <2>1, <3>1, <3>2
  <2>3. CASE source = Anything
    BY <2>1, <2>3, SourcesApart DEF GotInv
  <2>4. CASE source # Anything
    <3>1. PICK w \in {Append(acked, i) : i \in Items} : Origin(w) /\ ReadSoFar(w)
      BY <2>2, <2>4 DEF GotInv
    <3>2. w \in Seq(Items)
      <4>1. acked \in Seq(Items)
        BY <3>1 DEF Origin
      <4> QED BY <4>1, AppendProperties
    <3>3. Origin(w)'
      BY <2>1, <3>1, OriginKept
    <3>4. ReadSoFar(w)'
      BY <2>1, <3>1, <3>2, GotRead
    <3>5. w \in {Append(acked', i) : i \in Items}
      BY <2>1
    <3> QED BY <2>1, <2>2, <3>3, <3>4, <3>5 DEF GotInv
  <2> QED BY <2>3, <2>4
<1>2. CASE Write
  BY <1>2 DEF Write, vars, parser, reading, GotInv, Unread
<1>3. CASE Stop
  <2>1. EncInv /\ Unread
    BY <1>3 DEF Stop, WireInv, GotInv
  <2> QED BY <1>3, <2>1, GotStop
<1>4. CASE UNCHANGED exVars
  <2>1. UNCHANGED <<kind, header, headerWritten, closed, buf, bufErr, wire, running, item,
                    todo, acked, done, pc, card, version, result, source, eof, yielded,
                    failed, input>>
    BY <1>4 DEF exVars, memory, vars, parser, reading
  <2>2. ASSUME source = NoSource PROVE Unread'
    BY <2>1, <2>2 DEF GotInv, Unread
  <2>3. ASSUME source \notin {NoSource, Anything}
        PROVE  \E w \in {Append(acked', i) : i \in Items} : Origin(w)' /\ ReadSoFar(w)'
    <3>1. PICK w \in {Append(acked, i) : i \in Items} : Origin(w) /\ ReadSoFar(w)
      BY <2>3 DEF GotInv
    <3>2. Origin(w)'
      BY <2>1, <3>1, OriginKept
    <3>3. \A m : Position(w, m) => Position(w, m)'
      <4> SUFFICES ASSUME NEW m, Position(w, m) PROVE Position(w, m)'
        OBVIOUS
      <4>1. DocTo(w, m)' = DocTo(w, m) /\ DocTo(w, m + 1)' = DocTo(w, m + 1)
        BY <2>1, DocKept
      <4>2. \A c : Inside(c, DocTo(w, m + 1)) => Inside(c, DocTo(w, m + 1))'
        BY <2>1, <4>1 DEF Inside
      <4> QED BY <2>1, <4>1, <4>2 DEF Position
    <3>4. Cut' = Cut /\ CardsOf(acked)' = CardsOf(acked) /\ Ends(input)' = Ends(input)
      BY <2>1 DEF Cut, CardsOf, Ends
    <3>5. ReadSoFar(w)'
      BY <2>1, <3>1, <3>3, <3>4 DEF ReadSoFar
    <3> QED BY <2>1, <3>1, <3>2, <3>5
  <2> QED BY <2>1, <2>2, <2>3 DEF GotInv
<1> QED BY <1>1, <1>2, <1>3, <1>4 DEF ExNext

LEMMA GotInit == ExInit => GotInv
<1> SUFFICES ASSUME ExInit PROVE GotInv
  OBVIOUS
<1>1. source = NoSource \/ source = Anything
  BY DEF ExInit, Start
<1>2. Unread
  BY DEF ExInit, Start, Unread
<1> QED BY <1>1, <1>2 DEF GotInv

LEMMA GotIsWritten ==
  ASSUME GotInv
  PROVE  ReaderGetsWhatWasWritten
<1> SUFFICES ASSUME source \notin {NoSource, Anything}
             PROVE  /\ \E i \in Items : IsPrefix(yielded, CardsOf(Append(acked, i)))
                    /\ failed => Cut /\ eof
                    /\ result = "EOF" =>
                         /\ Len(yielded) = Ends(wire)
                         /\ failed <=> Cut
                         /\ closed => yielded = CardsOf(acked)
  BY DEF ReaderGetsWhatWasWritten, Ends, Cut
<1>1. PICK w \in {Append(acked, i) : i \in Items} : Origin(w) /\ ReadSoFar(w)
  BY DEF GotInv
<1>2. w \in Seq(Items)
  <2>1. acked \in Seq(Items)
    BY <1>1 DEF Origin
  <2> QED BY <2>1, AppendProperties
<1>3. PICK m \in 0..Len(w) : yielded = CardsOf(SubSeq(w, 1, m))
  BY <1>1 DEF ReadSoFar, Position
<1>4. IsPrefix(yielded, CardsOf(w))
  BY <1>2, <1>3, CardsOfFirst
<1>5. ~eof => ~failed /\ result # "EOF"
  BY <1>1 DEF ReadSoFar
<1>6. eof => /\ input = wire /\ (failed <=> Cut) /\ Len(yielded) = Ends(input)
             /\ closed => yielded = CardsOf(acked)
  BY <1>1 DEF ReadSoFar
<1> QED BY <1>1, <1>4, <1>5, <1>6

\* Whatever a card encoder left on the wire, a reader gets the cards that were
\* written, whole, in order and with their fields; an end in the middle of one
\* costs that one and is the only error; after a Close that succeeded it gets
\* every acknowledged card.  The cards carry none but the properties the
\* encoder does not write itself: what NewCard makes is not written like that.
THEOREM ReaderGetsTheCards ==
  ASSUME CardPropertiesAssumption
  PROVE  ExSpec => []ReaderGetsWhatWasWritten
<1>1. ExInit => WireInv /\ GotInv
  BY WireInit, GotInit
<1>2. WireInv /\ GotInv /\ [ExNext]_exVars => WireInv' /\ GotInv'
  BY WireStep, GotStep
<1>3. GotInv => ReaderGetsWhatWasWritten
  BY GotIsWritten
<1> QED BY <1>1, <1>2, <1>3, PTL DEF ExSpec
=============================================================================
