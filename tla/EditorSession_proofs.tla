------------------------ MODULE EditorSession_proofs ------------------------
(***************************************************************************)
(* The safety of EditorSession for any number of saves and versions and    *)
(* any session: texts typed, keys made, requests lost, pages opened.       *)
(***************************************************************************)
EXTENDS EditorSession, FiniteSetTheorems, TLAPS

-----------------------------------------------------------------------------
(* Types, for the texts and the keys made so far. *)

Known(n) == [text : 0..n, saved : 0..MaxVersion]
Drafts(n) == [content : Known(n), base : 0..MaxVersion, basis : 0..MaxVersion]
Asked(n) == (0..MaxVersion) \X (0..n)
Puts(n, k) == [phase : {"idle", "sent", "saved", "conflict"}, key : 0..k, payload : Asked(n),
               basis : 0..MaxVersion, attempt : {1, 2}, version : 0..MaxVersion]

EditorTypes(n) ==
  /\ screen \in [content : Known(n), version : 0..MaxVersion, edited : BOOLEAN,
                 basis : 0..MaxVersion, typed : BOOLEAN]
  /\ reading \in [phase : {"before", "reading", "done", "unreadable", "abandoned"},
                  initial : Known(n), version : 0..MaxVersion]
  /\ review \in {None} \cup Drafts(n) /\ dirty \in BOOLEAN
  /\ review # None => review.content = screen.content
  /\ dirty => review # None
  /\ reading.phase = "before" => review = None

ServerTypes(n, k) ==
  /\ server \in [version : 0..MaxVersion, text : 0..n, mine : BOOLEAN, basis : 0..MaxVersion]
  /\ receipts \subseteq [key : 1..k, payload : Asked(n), version : 1..MaxVersion]
  /\ late \subseteq [key : 1..k, payload : Asked(n), basis : 0..MaxVersion]

ClientTypes(n, k) ==
  /\ load \in [phase : {"idle", "sent", "header", "answered"}, asked : BOOLEAN,
               version : 0..MaxVersion, content : Known(n)]
  /\ put \in [Saves -> Puts(n, k)]
  /\ \A p \in Saves : put[p].phase # "idle" => put[p].key # 0
  /\ mutation \in {None} \cup [payload : Asked(n), key : 1..k]
  /\ stored \in {None} \cup Drafts(n)

UsedOK ==
  /\ session \in Sessions
  /\ used \in [texts : 0..MaxTexts, keys : 0..MaxKeys, losses : Nat, pages : Nat,
               rejected : BOOLEAN, unread : BOOLEAN]

TypeInv ==
  /\ UsedOK /\ EditorTypes(used.texts)
  /\ ServerTypes(used.texts, MaxKeys) /\ ClientTypes(used.texts, MaxKeys)

-----------------------------------------------------------------------------
(* What a client holds of a version of the server is old, or its author has *)
(* seen that version: this is what the version check makes of it.           *)

Seen(version, basis) ==
  version < server.version \/ (version = server.version /\ basis = version)

SeenInv ==
  /\ Seen(screen.version, screen.basis)
  /\ Seen(load.version, load.content.saved)
  /\ \A p \in Saves : Seen(put[p].payload[1], put[p].basis) /\ put[p].version <= server.version
  /\ \A r \in late : Seen(r.payload[1], r.basis)
  /\ \A x \in receipts : x.version <= server.version
  /\ review # None => Seen(review.base, review.basis)
  /\ stored # None => Seen(stored.base, stored.basis)
  /\ NoBlindOverwrite

\* What was typed while the stored draft is being read differs from what was
\* shown when the read began.
TypedInv ==
  /\ reading.phase = "before" => ~screen.typed
  /\ reading.phase = "reading" /\ screen.typed =>
       screen.content = Empty \/ screen.content # reading.initial

-----------------------------------------------------------------------------
(* Types. *)

Screens(n) == [content : Known(n), version : 0..MaxVersion, edited : BOOLEAN,
               basis : 0..MaxVersion, typed : BOOLEAN]
Loads(n) == [phase : {"idle", "sent", "header", "answered"}, asked : BOOLEAN,
             version : 0..MaxVersion, content : Known(n)]

\* What was made with fewer texts is still of its type.
LEMMA MoreTexts ==
  ASSUME NEW n \in Nat, NEW m \in Nat, n <= m, NEW k \in Nat
  PROVE  /\ Known(n) \subseteq Known(m) /\ Drafts(n) \subseteq Drafts(m)
         /\ Asked(n) \subseteq Asked(m) /\ Puts(n, k) \subseteq Puts(m, k)
         /\ Screens(n) \subseteq Screens(m)
<1>1. 0..n \subseteq 0..m
  OBVIOUS
<1>2. Known(n) \subseteq Known(m) /\ Asked(n) \subseteq Asked(m)
  BY <1>1 DEF Known, Asked
<1>3. Drafts(n) \subseteq Drafts(m) /\ Screens(n) \subseteq Screens(m)
  BY <1>2 DEF Drafts, Screens
<1>4. Puts(n, k) \subseteq Puts(m, k)
  BY <1>2 DEF Puts
<1>5. QED
  BY <1>2, <1>3, <1>4

\* What has its type with n texts and k keys has it with more of them.
LEMMA TypesGrow ==
  ASSUME NEW n \in Nat, NEW m \in Nat, n <= m, NEW k \in Nat
  PROVE  /\ EditorTypes(n) => EditorTypes(m)
         /\ ServerTypes(n, k) => ServerTypes(m, k)
         /\ ClientTypes(n, k) => ClientTypes(m, k)
<1>1. EditorTypes(n) => EditorTypes(m)
  BY MoreTexts DEF EditorTypes, Screens
<1>2. ServerTypes(n, k) => ServerTypes(m, k)
  <2>1. 0..n \subseteq 0..m
    OBVIOUS
  <2>2. QED
    BY <2>1, MoreTexts DEF ServerTypes
<1>3. ClientTypes(n, k) => ClientTypes(m, k)
  BY MoreTexts DEF ClientTypes
<1>4. QED
  BY <1>1, <1>2, <1>3

\* A draft made from a screen is one, and is not None.
LEMMA FreshDraft ==
  ASSUME NEW n \in Nat, NEW s \in Screens(n)
  PROVE  /\ FreshReview(s) \in Drafts(n) /\ FreshReview(s) # None
         /\ FreshReview(s).content = s.content
<1>1. FreshReview(s) \in Drafts(n) /\ FreshReview(s).content = s.content
  BY DEF FreshReview, Drafts, Screens
<1>2. Drafts(n) \subseteq [content : [text : Nat, saved : Nat], base : Nat, basis : Nat]
  BY SessionAssumption DEF Drafts, Known
<1>3. QED
  BY <1>1, <1>2, SessionAssumption

\* Whatever is shown next, the review state goes with it.
LEMMA ShowTypes ==
  ASSUME NEW n \in Nat, EditorTypes(n), NEW s \in Screens(n), Show(s)
  PROVE  EditorTypes(n)'
<1>1. screen' \in Screens(n)
  BY DEF Show
<1>2. reading' \in [phase : {"before", "reading", "done", "unreadable", "abandoned"},
                    initial : Known(n), version : 0..MaxVersion]
  BY DEF Show, EditorTypes
<1>3. review' \in {None} \cup Drafts(n) /\ (review' # None => review'.content = screen'.content)
  BY FreshDraft DEF Show, EditorTypes
<1>4. dirty' \in BOOLEAN /\ (dirty' => review' # None)
  BY FreshDraft DEF Show, EditorTypes
<1>5. reading'.phase = "before" => review' = None
  BY DEF Show, EditorTypes
<1>6. QED
  BY <1>1, <1>2, <1>3, <1>4, <1>5 DEF EditorTypes, Screens

\* The editor that becomes ready shows a review state of its screen.
LEMMA ReadyTypes ==
  ASSUME NEW n \in Nat, EditorTypes(n), NEW s \in Screens(n), Ready(s)
  PROVE  EditorTypes(n)'
<1>1. CASE reading.phase # "before"
  BY <1>1, ShowTypes DEF Ready
<1>2. CASE reading.phase = "before"
  <2>1. screen' = s /\ UNCHANGED <<review, dirty>>
        /\ reading' = [phase |-> "reading", initial |-> s.content, version |-> s.version]
    BY <1>2 DEF Ready
  <2>2. reading' \in [phase : {"before", "reading", "done", "unreadable", "abandoned"},
                      initial : Known(n), version : 0..MaxVersion]
    BY <2>1 DEF Screens
  <2>3. QED
    BY <1>2, <2>1, <2>2 DEF EditorTypes, Screens
<1>3. QED
  BY <1>1, <1>2

\* A step that only changes what the client has sent, read or kept.
LEMMA EditorUntouched ==
  ASSUME NEW n \in Nat, EditorTypes(n), UNCHANGED <<screen, review, reading, dirty>>
  PROVE  EditorTypes(n)'
BY DEF EditorTypes

\* A save that is accepted needs a version that is left.
LEMMA AcceptTypes ==
  ASSUME NEW n \in Nat, NEW k \in Nat, ServerTypes(n, k), NEW r, r.key \in 1..k,
         r.payload \in Asked(n), r.basis \in 0..MaxVersion, server.version < MaxVersion, Accept(r)
  PROVE  /\ server' \in [version : 0..MaxVersion, text : 0..n, mine : BOOLEAN,
                         basis : 0..MaxVersion]
         /\ receipts' \subseteq [key : 1..k, payload : Asked(n), version : 1..MaxVersion]
<1>1. server.version \in 0..MaxVersion /\ MaxVersion \in Nat
  BY SessionAssumption DEF ServerTypes
<1>2. server.version + 1 \in 1..MaxVersion
  BY <1>1
<1>3. r.payload[2] \in 0..n
  BY DEF Asked
<1>4. server.version + 1 \in 0..MaxVersion
  BY <1>2
<1>5. server' = [version |-> server.version + 1, text |-> r.payload[2], mine |-> TRUE,
                 basis |-> r.basis]
  BY DEF Accept
<1>6. receipts' = receipts \cup
        {[key |-> r.key, payload |-> r.payload, version |-> server.version + 1]}
  BY DEF Accept
<1>7. QED
  BY <1>2, <1>3, <1>4, <1>5, <1>6 DEF ServerTypes

\* What a load brings to the screen is typed, and so is one that is sent.
LEMMA LoadTypes ==
  ASSUME NEW n \in Nat, NEW k \in Nat, EditorTypes(n), ServerTypes(n, k), ClientTypes(n, k)
  PROVE  /\ Loaded \in Screens(n) /\ screen \in Screens(n) /\ NoLoad \in Loads(n)
         /\ AskedLoad \in Loads(n)
         /\ Stored(server.version, server.text) \in Known(n)
<1>1. 0 \in 0..n /\ 0 \in 0..MaxVersion
  BY SessionAssumption
<1>2. screen \in Screens(n) /\ load \in Loads(n)
  BY DEF EditorTypes, ClientTypes, Screens, Loads
<1>3. Shown(load.version, load.content) \in Screens(n)
  BY <1>2 DEF Shown, Screens, Loads, Known
<1>4. [screen EXCEPT !.version = 0] \in Screens(n)
  BY <1>1, <1>2 DEF Screens
<1>5. NoLoad \in Loads(n) /\ AskedLoad \in Loads(n)
  BY <1>1, <1>2 DEF NoLoad, AskedLoad, Loads, Screens, Empty, Known
<1>6. Stored(server.version, server.text) \in Known(n)
  BY DEF Stored, Known, ServerTypes
<1>7. QED
  BY <1>2, <1>3, <1>4, <1>5, <1>6 DEF Loaded

\* Loading.
LEMMA LoadStepTypes ==
  ASSUME NEW n \in Nat, NEW k \in Nat, EditorTypes(n), ServerTypes(n, k), ClientTypes(n, k),
         UNCHANGED <<server, receipts, late, put, mutation, stored>>,
         \/ ReadHeader \/ ReadSegments \/ TranscriptLoaded \/ MinutesLoaded \/ LoadFailed \/ Reload
  PROVE  EditorTypes(n)' /\ ServerTypes(n, k)' /\ ClientTypes(n, k)'
<1>1. /\ Loaded \in Screens(n) /\ screen \in Screens(n) /\ NoLoad \in Loads(n)
      /\ AskedLoad \in Loads(n)
      /\ Stored(server.version, server.text) \in Known(n)
  BY LoadTypes
<1>2. load \in Loads(n) /\ server.version \in 0..MaxVersion
  BY DEF ClientTypes, Loads, ServerTypes
<1>3. load' \in Loads(n)
  <2>1. CASE ReadHeader
    BY <1>1, <1>2, <2>1 DEF ReadHeader, Loads
  <2>2. CASE ReadSegments
    BY <1>1, <1>2, <2>2 DEF ReadSegments, Loads
  <2>3. CASE TranscriptLoaded \/ MinutesLoaded \/ LoadFailed \/ Reload
    BY <1>1, <2>3 DEF TranscriptLoaded, MinutesLoaded, LoadFailed, Reload
  <2>4. QED
    BY <2>1, <2>2, <2>3
<1>4. ServerTypes(n, k)' /\ ClientTypes(n, k)'
  BY <1>3 DEF ServerTypes, ClientTypes, Loads
<1>5. EditorTypes(n)'
  <2>1. CASE ReadHeader \/ ReadSegments \/ Reload
    BY <2>1, EditorUntouched DEF ReadHeader, ReadSegments, Reload
  <2>2. PICK s \in Screens(n), old \in Screens(n) : s = Loaded /\ old = screen
    BY <1>1
  <2>3. CASE TranscriptLoaded \/ MinutesLoaded
    BY <2>2, <2>3, ShowTypes, ReadyTypes DEF TranscriptLoaded, MinutesLoaded
  <2>4. CASE LoadFailed
    BY <2>2, <2>4, ShowTypes, ReadyTypes DEF LoadFailed
  <2>5. QED
    BY <2>1, <2>3, <2>4
<1>6. QED
  BY <1>4, <1>5

\* Editing, but for what is typed anew.
LEMMA ShownTypes ==
  ASSUME NEW n \in Nat, NEW k \in Nat, EditorTypes(n), ServerTypes(n, k), ClientTypes(n, k),
         UNCHANGED <<server, receipts, late, load, put, mutation, stored>>,
         NEW s \in Screens(n), Show(s)
  PROVE  EditorTypes(n)' /\ ServerTypes(n, k)' /\ ClientTypes(n, k)'
<1>1. EditorTypes(n)'
  BY ShowTypes
<1>2. ServerTypes(n, k)' /\ ClientTypes(n, k)'
  BY DEF ServerTypes, ClientTypes
<1>3. QED
  BY <1>1, <1>2

\* What is typed is the next text.
LEMMA TypedTypes ==
  ASSUME NEW n \in Nat, EditorTypes(n), NEW c \in Known(n)
  PROVE  /\ Typed(c) \in Screens(n)
         /\ [screen EXCEPT !.content = c, !.edited = TRUE, !.typed = FALSE] \in Screens(n)
BY DEF Typed, Screens, EditorTypes

\* The texts and keys made stay within what the session allows.
LEMMA Counts ==
  ASSUME UsedOK
  PROVE  /\ MaxTexts \in Nat /\ MaxKeys \in Nat
         /\ used.texts \in Nat /\ used.texts <= MaxTexts /\ used.keys \in 0..MaxKeys
<1>1. session.texts \in Nat /\ session.keys \in Nat
  BY SessionAssumption DEF UsedOK
<1>2. QED
  BY <1>1 DEF UsedOK, MaxTexts, MaxKeys

\* Typing keeps the types: its text is the next one.
LEMMA EditStepTypes ==
  ASSUME TypeInv, NEW d, Edit(d)
  PROVE  TypeInv'
<1>0. UsedOK
  BY DEF TypeInv
<1>1. PICK n \in Nat : n = used.texts /\ n + 1 <= MaxTexts
  BY <1>0, Counts DEF Edit, MaxTexts
<1>2. PICK j \in Nat : j = MaxKeys
  BY <1>0, Counts
<1>3. EditorTypes(n + 1) /\ ServerTypes(n + 1, j) /\ ClientTypes(n + 1, j)
  BY <1>1, <1>2, TypesGrow DEF TypeInv
<1>4. /\ used' = [used EXCEPT !.texts = @ + 1] /\ Show(Typed(Stored(0, used'.texts)))
      /\ UNCHANGED <<session, server, receipts, late, load, put, mutation, stored>>
  BY DEF Edit
<1>5. UsedOK' /\ used'.texts = n + 1 /\ MaxKeys' = j
  <2>1. n + 1 \in 0..MaxTexts /\ used.texts + 1 = n + 1
    BY <1>0, <1>1, Counts
  <2>2. MaxTexts' = MaxTexts /\ MaxKeys' = MaxKeys
    BY <1>4 DEF MaxTexts, MaxKeys
  <2>3. QED
    BY <1>0, <1>2, <1>4, <2>1, <2>2 DEF UsedOK
<1>6. Stored(0, n + 1) \in Known(n + 1)
  BY SessionAssumption DEF Stored, Known
<1>7. PICK s \in Screens(n + 1) : s = Typed(Stored(0, n + 1))
  <2>1. PICK m \in Nat, c \in Known(n + 1) : m = n + 1 /\ c = Stored(0, n + 1)
    BY <1>6
  <2>2. EditorTypes(m) /\ c \in Known(m)
    BY <1>3, <2>1
  <2>3. Typed(c) \in Screens(m)
    BY <2>2, TypedTypes
  <2>4. QED
    BY <2>1, <2>3
<1>8. EditorTypes(n + 1)' /\ ServerTypes(n + 1, j)' /\ ClientTypes(n + 1, j)'
  BY <1>3, <1>4, <1>5, <1>7, ShownTypes
<1>9. QED
  BY <1>5, <1>8 DEF TypeInv

\* Saving: what the client does.
LEMMA PutTypes ==
  ASSUME NEW n \in Nat, NEW k \in Nat, ClientTypes(n, k), NEW p \in Saves, NEW q \in Puts(n, k),
         q.phase # "idle" => q.key # 0, put' = [put EXCEPT ![p] = q]
  PROVE  put' \in [Saves -> Puts(n, k)] /\ \A x \in Saves : put'[x].phase # "idle" => put'[x].key # 0
BY DEF ClientTypes

\* A save that was never sent is a typed save.
LEMMA NoPutTypes == ASSUME NEW n \in Nat, NEW k \in Nat PROVE NoPut \in Puts(n, k)
<1>1. 0 \in 0..n /\ 0 \in 0..k /\ 0 \in 0..MaxVersion
  BY SessionAssumption
<1>2. QED
  BY <1>1 DEF NoPut, Puts, Asked

\* Clicking save keeps the types: its key is the remembered one or the next.
LEMMA ClickTypes ==
  ASSUME TypeInv, NEW p \in Saves, ClickSave(p)
  PROVE  TypeInv'
<1>1. PICK n \in Nat, k \in Nat : n = used.texts /\ k = MaxKeys
  BY Counts DEF TypeInv
<1>2. EditorTypes(n) /\ ServerTypes(n, k) /\ ClientTypes(n, k) /\ UsedOK
  BY <1>1 DEF TypeInv
<1>3. PICK payload \in Asked(n) : payload = <<screen.version, screen.content.text>>
  BY <1>2 DEF EditorTypes, Asked, Known
<1> DEFINE same == SameMutation(payload)
<1>4. PICK key \in 1..k : key = IF same THEN mutation.key ELSE used.keys + 1
  <2>1. CASE same
    <3>1. mutation.key \in 1..k
      BY <1>2, <2>1 DEF SameMutation, ClientTypes
    <3>2. QED
      BY <2>1, <3>1
  <2>2. CASE ~same
    <3>1. used.keys + 1 \in 1..k
      BY <1>1, <1>2, <1>3, <2>2 DEF ClickSave, UsedOK
    <3>2. QED
      BY <2>2, <3>1
  <2>3. QED
    BY <2>1, <2>2
<1> DEFINE sent == [NoPut EXCEPT !.phase = "sent", !.key = key, !.payload = payload,
                                 !.basis = screen.basis]
<1>5. /\ mutation' = [payload |-> payload, key |-> key]
      /\ used' = [used EXCEPT !.keys = IF same THEN @ ELSE key]
      /\ put' \in {put, [put EXCEPT ![p] = sent]}
      /\ UNCHANGED <<session, server, receipts, late, screen, load, review, reading, dirty, stored>>
  BY <1>3, <1>4 DEF ClickSave
<1>6. sent \in Puts(n, k) /\ sent.key # 0
  <2>1. screen.basis \in 0..MaxVersion /\ key \in 0..k
    BY <1>2 DEF EditorTypes
  <2>2. NoPut \in Puts(n, k)
    BY NoPutTypes
  <2>3. sent \in Puts(n, k) /\ sent.key = key
    BY <2>1, <2>2 DEF Puts, NoPut
  <2>4. QED
    BY <2>3
<1>7. ClientTypes(n, k)'
  <2>1. put' \in [Saves -> Puts(n, k)] /\ \A x \in Saves : put'[x].phase # "idle" => put'[x].key # 0
    <3>1. CASE put' = put
      BY <1>2, <3>1 DEF ClientTypes
    <3>2. CASE put' = [put EXCEPT ![p] = sent]
      <4> HIDE DEF sent
      <4>1. QED
        BY <1>2, <1>6, <3>2, PutTypes
    <3>3. QED
      BY <1>5, <3>1, <3>2
  <2>2. mutation' \in [payload : Asked(n), key : 1..k]
    BY <1>5
  <2>3. QED
    BY <1>2, <1>5, <2>1, <2>2 DEF ClientTypes
<1>8. ServerTypes(n, k)' /\ EditorTypes(n)'
  BY <1>2, <1>5 DEF ServerTypes, EditorTypes
<1>9. UsedOK' /\ used'.texts = n
  <2>1. used.keys \in 0..k /\ key \in 0..k
    BY <1>1, <1>2 DEF UsedOK
  <2>2. QED
    BY <1>1, <1>2, <1>5, <2>1 DEF UsedOK, MaxTexts, MaxKeys
<1>10. MaxKeys' = k
  BY <1>1, <1>5 DEF MaxKeys
<1>11. QED
  BY <1>7, <1>8, <1>9, <1>10 DEF TypeInv

\* Saving: what the server does, for a client that listens or no longer does.
LEMMA HandleTypes ==
  ASSUME NEW n \in Nat, NEW k \in Nat, ServerTypes(n, k), ClientTypes(n, k),
         NEW p \in Saves, HandleSave(p)
  PROVE  ServerTypes(n, k)' /\ ClientTypes(n, k)'
<1> USE SessionAssumption
<1>1. /\ put[p] \in Puts(n, k) /\ put[p].key \in 1..k /\ put[p].payload \in Asked(n)
      /\ put[p].basis \in 0..MaxVersion
  BY DEF HandleSave, ClientTypes, Puts
<1>2. UNCHANGED <<late, load, mutation, stored>>
  BY DEF HandleSave
<1>3. CASE UNCHANGED <<server, receipts>> /\ \E x \in Receipt(put[p]) :
             put' = [put EXCEPT ![p].phase = "saved", ![p].version = x.version]
  <2>1. PICK x \in Receipt(put[p]) :
             put' = [put EXCEPT ![p].phase = "saved", ![p].version = x.version]
    BY <1>3
  <2>2. x.version \in 0..MaxVersion
    BY DEF Receipt, ServerTypes
  <2>3. PICK q \in Puts(n, k) : q = [put[p] EXCEPT !.phase = "saved", !.version = x.version]
    BY <1>1, <2>2 DEF Puts
  <2>4. put' = [put EXCEPT ![p] = q] /\ q.key # 0
    <3>1. q.key # 0
      BY <1>1, <2>3 DEF Puts
    <3>2. put \in [Saves -> Puts(n, k)]
      BY DEF ClientTypes
    <3>3. put' = [put EXCEPT ![p] = q]
      BY <2>1, <2>3, <3>2
    <3>4. QED
      BY <3>1, <3>3
  <2>5. put' \in [Saves -> Puts(n, k)] /\ \A y \in Saves : put'[y].phase # "idle" => put'[y].key # 0
    BY <1>1, <2>4, PutTypes
  <2>6. QED
    BY <1>2, <1>3, <2>5 DEF ServerTypes, ClientTypes
<1>4. CASE /\ server.version < MaxVersion /\ Accept(put[p])
           /\ put' = [put EXCEPT ![p].phase = "saved", ![p].version = server.version + 1]
  <2>1. PICK r \in Puts(n, k) : r = put[p]
    BY <1>1
  <2>2. ServerTypes(n, k)'
    BY <1>1, <1>2, <1>4, <2>1, AcceptTypes DEF ServerTypes
  <2>3. server.version + 1 \in 0..MaxVersion
    BY <1>4 DEF ServerTypes
  <2>4. PICK q \in Puts(n, k) : q = [put[p] EXCEPT !.phase = "saved", !.version = server.version + 1]
    BY <1>1, <2>3 DEF Puts
  <2>5. put' = [put EXCEPT ![p] = q] /\ q.key # 0
    <3>1. q.key # 0
      BY <1>1, <2>4 DEF Puts
    <3>2. put \in [Saves -> Puts(n, k)]
      BY DEF ClientTypes
    <3>3. put' = [put EXCEPT ![p] = q]
      BY <1>4, <2>4, <3>2
    <3>4. QED
      BY <3>1, <3>3
  <2>6. put' \in [Saves -> Puts(n, k)] /\ \A y \in Saves : put'[y].phase # "idle" => put'[y].key # 0
    BY <1>1, <2>5, PutTypes
  <2>7. QED
    BY <1>2, <2>2, <2>6 DEF ClientTypes
<1>5. CASE put' = [put EXCEPT ![p].phase = "conflict"] /\ UNCHANGED <<server, receipts>>
  <2>1. PICK q \in Puts(n, k) : q = [put[p] EXCEPT !.phase = "conflict"]
    BY <1>1 DEF Puts
  <2>2. put' = [put EXCEPT ![p] = q] /\ q.key # 0
    BY <1>1, <1>5, <2>1 DEF Puts
  <2>3. put' \in [Saves -> Puts(n, k)] /\ \A y \in Saves : put'[y].phase # "idle" => put'[y].key # 0
    BY <1>1, <2>2, PutTypes
  <2>4. QED
    BY <1>2, <1>5, <2>3 DEF ServerTypes, ClientTypes
<1>6. QED
  BY <1>3, <1>4, <1>5 DEF HandleSave

\* A request that arrives late keeps the types.
LEMMA LateTypes ==
  ASSUME NEW n \in Nat, NEW k \in Nat, ServerTypes(n, k), ClientTypes(n, k), HandleLate
  PROVE  ServerTypes(n, k)' /\ ClientTypes(n, k)'
<1>1. PICK r \in late :
        /\ late' = late \ {r}
        /\ (server.version < MaxVersion /\ Accept(r)) \/ UNCHANGED <<server, receipts>>
  BY DEF HandleLate
<1>2. r.key \in 1..k /\ r.payload \in Asked(n) /\ r.basis \in 0..MaxVersion
  BY DEF ServerTypes
<1>3. ServerTypes(n, k)'
  <2>1. CASE server.version < MaxVersion /\ Accept(r)
    BY <1>1, <1>2, <2>1, AcceptTypes DEF ServerTypes
  <2>2. CASE UNCHANGED <<server, receipts>>
    BY <1>1, <2>2 DEF ServerTypes
  <2>3. QED
    BY <1>1, <2>1, <2>2
<1>4. ClientTypes(n, k)'
  BY DEF HandleLate, ClientTypes
<1>5. QED
  BY <1>3, <1>4

\* Saving: what comes of a request for the client.
Request(p) == [key |-> put[p].key, payload |-> put[p].payload, basis |-> put[p].basis]

\* The request of a save under way is a typed request.
LEMMA RequestTypes ==
  ASSUME NEW n \in Nat, NEW k \in Nat, ClientTypes(n, k), NEW p \in Saves, put[p].phase # "idle"
  PROVE  Request(p) \in [key : 1..k, payload : Asked(n), basis : 0..MaxVersion]
<1>1. put[p] \in Puts(n, k) /\ put[p].key # 0
  BY DEF ClientTypes
<1>2. put[p].key \in 1..k /\ put[p].payload \in Asked(n) /\ put[p].basis \in 0..MaxVersion
  BY <1>1 DEF Puts
<1>3. QED
  BY <1>2 DEF Request

\* The ends of a save keep the types.
LEMMA EndTypes ==
  ASSUME NEW n \in Nat, NEW k \in Nat, ServerTypes(n, k), ClientTypes(n, k), NEW p \in Saves,
         RejectSave(p) \/ AnswerUnreadable(p) \/ LoseSave(p) \/ SaveAnswered(p)
  PROVE  ServerTypes(n, k)' /\ ClientTypes(n, k)'
<1>1. UNCHANGED <<server, receipts, load, stored>>
  BY DEF RejectSave, AnswerUnreadable, LoseSave, SaveAnswered
<1>2. PICK q \in Puts(n, k) : (q.phase # "idle" => q.key # 0) /\ put' = [put EXCEPT ![p] = q]
  <2>1. NoPut \in Puts(n, k) /\ NoPut.phase = "idle"
    BY NoPutTypes DEF NoPut
  <2>2. CASE put' = [put EXCEPT ![p] = NoPut]
    BY <2>1, <2>2
  <2>3. CASE LoseSave(p) /\ put[p].attempt = 1
    <3>1. put' = [put EXCEPT ![p] = [put[p] EXCEPT !.phase = "sent", !.attempt = 2]]
      BY <2>3 DEF LoseSave, ClientTypes
    <3>2. put[p] \in Puts(n, k) /\ put[p].key # 0
      BY <2>3 DEF LoseSave, ClientTypes
    <3>3. /\ [put[p] EXCEPT !.phase = "sent", !.attempt = 2] \in Puts(n, k)
          /\ [put[p] EXCEPT !.phase = "sent", !.attempt = 2].key = put[p].key
      BY <3>2 DEF Puts
    <3>4. QED
      BY <3>1, <3>2, <3>3
  <2>4. CASE LoseSave(p) /\ put[p].attempt # 1
    <3>1. put' = [put EXCEPT ![p] = NoPut]
      BY <2>4 DEF LoseSave, ClientTypes
    <3>2. QED
      BY <2>2, <3>1
  <2>5. QED
    BY <2>2, <2>3, <2>4 DEF RejectSave, AnswerUnreadable, SaveAnswered
<1>3. put' \in [Saves -> Puts(n, k)] /\ \A x \in Saves : put'[x].phase # "idle" => put'[x].key # 0
  BY <1>2, PutTypes
<1>4. mutation' \in {None} \cup [payload : Asked(n), key : 1..k]
  BY DEF RejectSave, AnswerUnreadable, LoseSave, SaveAnswered, ClientTypes
<1>5. late' \subseteq [key : 1..k, payload : Asked(n), basis : 0..MaxVersion]
  <2>1. CASE late' = late
    BY <2>1 DEF ServerTypes
  <2>2. CASE LoseSave(p) /\ late' = late \cup {Request(p)}
    BY <2>2, RequestTypes DEF LoseSave, ServerTypes
  <2>3. QED
    BY <2>1, <2>2 DEF RejectSave, AnswerUnreadable, LoseSave, SaveAnswered, Request
<1>6. QED
  BY <1>1, <1>3, <1>4, <1>5 DEF ServerTypes, ClientTypes

\* The answer of a save is shown as it was sent.
LEMMA AnsweredTypes ==
  ASSUME NEW n \in Nat, NEW k \in Nat, EditorTypes(n), ClientTypes(n, k), NEW p \in Saves,
         SaveAnswered(p)
  PROVE  EditorTypes(n)'
<1>1. CASE UNCHANGED <<screen, review, reading, dirty>>
  BY <1>1, EditorUntouched
<1>2. CASE Show(Shown(put[p].version, Stored(put[p].version, put[p].payload[2])))
  <2>1. put[p].version \in 0..MaxVersion /\ put[p].payload[2] \in 0..n
    BY DEF ClientTypes, Puts, Asked
  <2>2. Shown(put[p].version, Stored(put[p].version, put[p].payload[2])) \in Screens(n)
    BY <2>1 DEF Shown, Stored, Screens, Known
  <2>3. PICK s \in Screens(n) : s = Shown(put[p].version, Stored(put[p].version, put[p].payload[2]))
    BY <2>2
  <2>4. QED
    BY <1>2, <2>3, ShowTypes
<1>3. QED
  BY <1>1, <1>2 DEF SaveAnswered

\* The review draft.
LEMMA DraftTypes ==
  ASSUME NEW n \in Nat, NEW k \in Nat, EditorTypes(n), ServerTypes(n, k), ClientTypes(n, k),
         DraftArrives \/ DraftUnreadable \/ Autosave
  PROVE  EditorTypes(n)' /\ ServerTypes(n, k)' /\ ClientTypes(n, k)'
<1>1. screen \in Screens(n)
  BY DEF EditorTypes, Screens
<1>2. /\ FreshReview(screen) \in Drafts(n) /\ FreshReview(screen) # None
      /\ FreshReview(screen).content = screen.content
  <2>1. PICK s \in Screens(n) : s = screen
    BY <1>1
  <2>2. QED
    BY <2>1, FreshDraft
<1>3. ServerTypes(n, k)'
  BY DEF DraftArrives, DraftUnreadable, Autosave, ServerTypes
<1>4. ClientTypes(n, k)'
  BY DEF DraftArrives, DraftUnreadable, Autosave, ClientTypes, EditorTypes
<1>5. EditorTypes(n)'
  <2>1. CASE Autosave
    BY <2>1 DEF Autosave, EditorTypes
  <2>2. CASE DraftArrives \/ DraftUnreadable
    <3>1. /\ reading' \in [phase : {"before", "reading", "done", "unreadable", "abandoned"},
                           initial : Known(n), version : 0..MaxVersion]
          /\ reading'.phase # "before" /\ dirty' = TRUE
      BY <2>2 DEF DraftArrives, DraftUnreadable, EditorTypes
    <3>2. CASE review' = FreshReview(screen) /\ screen' = screen
      BY <1>1, <1>2, <3>1, <3>2 DEF EditorTypes, Screens
    <3>3. CASE /\ stored # None /\ review' = stored
               /\ screen' = [screen EXCEPT !.content = stored.content, !.edited = TRUE,
                                           !.basis = stored.basis]
      <4>1. stored \in Drafts(n)
        BY <3>3 DEF ClientTypes
      <4>2. screen' \in Screens(n) /\ screen'.content = stored.content
        BY <1>1, <3>3, <4>1 DEF Screens, Drafts
      <4>3. QED
        BY <3>1, <3>3, <4>1, <4>2 DEF EditorTypes, Screens
    <3>4. QED
      BY <2>2, <3>2, <3>3 DEF DraftArrives, DraftUnreadable, Fits
  <2>3. QED
    BY <2>1, <2>2
<1>6. QED
  BY <1>3, <1>4, <1>5

\* A page that was just opened is typed.
LEMMA FirstTypes ==
  ASSUME NEW n \in Nat
  PROVE  /\ FirstScreen \in Screens(n) /\ FirstLoad \in Loads(n)
         /\ NotRead \in [phase : {"before", "reading", "done", "unreadable", "abandoned"},
                         initial : Known(n), version : 0..MaxVersion]
         /\ NotRead.phase = "before"
<1>1. 0 \in 0..n /\ 0 \in 0..MaxVersion
  BY SessionAssumption
<1>2. QED
  BY <1>1 DEF FirstScreen, FirstLoad, NotRead, NoLoad, Screens, Loads, Known, Empty

\* Reopening the page keeps the types.
LEMMA ReopenTypes ==
  ASSUME NEW n \in Nat, NEW k \in Nat, EditorTypes(n), ServerTypes(n, k), ClientTypes(n, k),
         ReopenPage
  PROVE  EditorTypes(n)' /\ ServerTypes(n, k)' /\ ClientTypes(n, k)'
<1>1. EditorTypes(n)'
  BY FirstTypes DEF ReopenPage, EditorTypes, Screens
<1>2. ServerTypes(n, k)'
  <2>1. late' = late \cup {Request(p) : p \in {q \in Saves : put[q].phase = "sent"}}
        /\ UNCHANGED <<server, receipts>>
    BY DEF ReopenPage, Request
  <2>2. \A p \in Saves : put[p].phase = "sent" =>
          Request(p) \in [key : 1..k, payload : Asked(n), basis : 0..MaxVersion]
    BY RequestTypes
  <2>3. QED
    BY <2>1, <2>2 DEF ServerTypes
<1>3. ClientTypes(n, k)'
  <2>1. NoPut.phase = "idle" /\ NoPut \in Puts(n, k)
    BY NoPutTypes DEF NoPut
  <2>2. QED
    BY <2>1, FirstTypes DEF ReopenPage, ClientTypes, Loads
<1>4. QED
  BY <1>1, <1>2, <1>3

\* A save of the other client keeps the types.
LEMMA OtherTypes ==
  ASSUME NEW n \in Nat, NEW k \in Nat, EditorTypes(n), ServerTypes(n, k), ClientTypes(n, k),
         OtherSaves
  PROVE  EditorTypes(n)' /\ ServerTypes(n, k)' /\ ClientTypes(n, k)'
<1>1. server.version \in 0..MaxVersion /\ server.version + 1 \in 0..MaxVersion /\ 0 \in 0..n
  BY SessionAssumption DEF OtherSaves, ServerTypes
<1>2. QED
  BY <1>1 DEF OtherSaves, EditorTypes, ServerTypes, ClientTypes

\* Every step keeps the types.
LEMMA TypesStep == TypeInv /\ [Next]_vars => TypeInv'
<1> SUFFICES ASSUME TypeInv, [Next]_vars PROVE TypeInv'
  OBVIOUS
<1>1. PICK n \in Nat, k \in Nat : n = used.texts /\ k = MaxKeys
  BY Counts DEF TypeInv
<1>2. EditorTypes(n) /\ ServerTypes(n, k) /\ ClientTypes(n, k) /\ UsedOK
  BY <1>1 DEF TypeInv
<1> DEFINE counted == /\ session' = session
                      /\ used' \in {used, [used EXCEPT !.losses = @ + 1],
                                    [used EXCEPT !.losses = @ + 1, !.rejected = TRUE],
                                    [used EXCEPT !.losses = @ + 1, !.unread = TRUE],
                                    [used EXCEPT !.pages = @ + 1]}
<1>3. ASSUME counted, EditorTypes(n)' /\ ServerTypes(n, k)' /\ ClientTypes(n, k)' PROVE TypeInv'
  <2>1. UsedOK' /\ used'.texts = n /\ MaxKeys' = k
    <3>1. /\ used \in [texts : 0..MaxTexts, keys : 0..MaxKeys, losses : Nat, pages : Nat,
                      rejected : BOOLEAN, unread : BOOLEAN]
          /\ used.losses + 1 \in Nat /\ used.pages + 1 \in Nat
      BY <1>2 DEF UsedOK
    <3>2. /\ used' \in [texts : 0..MaxTexts, keys : 0..MaxKeys, losses : Nat, pages : Nat,
                       rejected : BOOLEAN, unread : BOOLEAN]
          /\ used'.texts = used.texts
      BY <1>3, <3>1
    <3>3. session' = session /\ MaxTexts' = MaxTexts /\ MaxKeys' = MaxKeys
      BY <1>3 DEF MaxTexts, MaxKeys
    <3>4. QED
      BY <1>1, <1>2, <3>2, <3>3 DEF UsedOK
  <2>2. QED
    BY <1>3, <2>1 DEF TypeInv
<1>4. CASE ReadHeader \/ ReadSegments \/ TranscriptLoaded \/ MinutesLoaded \/ LoadFailed \/ Reload
  <2>1. counted /\ UNCHANGED <<server, receipts, late, put, mutation, stored>>
    BY <1>4 DEF ReadHeader, ReadSegments, TranscriptLoaded, MinutesLoaded, LoadFailed, Reload
  <2>2. QED
    BY <1>2, <1>3, <1>4, <2>1, LoadStepTypes
<1>5. ASSUME NEW d, Edit(d) PROVE TypeInv'
  BY <1>5, EditStepTypes
<1>6. ASSUME NEW c \in {Empty},
             \/ Show(Typed(c))
             \/ Show([screen EXCEPT !.content = c, !.edited = TRUE, !.typed = FALSE]),
             UNCHANGED <<session, server, receipts, late, load, put, mutation, stored, used>>
      PROVE  TypeInv'
  <2>1. c \in Known(n)
    BY SessionAssumption DEF Empty, Known
  <2>2. /\ Typed(c) \in Screens(n)
        /\ [screen EXCEPT !.content = c, !.edited = TRUE, !.typed = FALSE] \in Screens(n)
    BY <1>2, <2>1, TypedTypes
  <2>3. PICK s \in Screens(n), r \in Screens(n) :
          s = Typed(c) /\ r = [screen EXCEPT !.content = c, !.edited = TRUE, !.typed = FALSE]
    BY <2>2
  <2>4. EditorTypes(n)' /\ ServerTypes(n, k)' /\ ClientTypes(n, k)'
    BY <1>2, <1>6, <2>3, ShownTypes
  <2>5. QED
    BY <1>3, <1>6, <2>4
<1>7. CASE LiveText \/ AddSegment \/ ReviewSegments \/ DeleteSegment \/ NewRecording
           \/ MinutesGenerated \/ EditMinutes
  BY <1>5, <1>6, <1>7 DEF LiveText, AddSegment, ReviewSegments, DeleteSegment, NewRecording,
       MinutesGenerated, EditMinutes
<1>8. ASSUME NEW p \in Saves, ClickSave(p) PROVE TypeInv'
  BY <1>8, ClickTypes
<1>9. ASSUME NEW p \in Saves, HandleSave(p) PROVE TypeInv'
  <2>1. counted /\ UNCHANGED <<screen, review, reading, dirty>>
    BY <1>9 DEF HandleSave
  <2>2. QED
    BY <1>2, <1>3, <1>9, <2>1, HandleTypes, EditorUntouched
<1>10. ASSUME NEW p \in Saves, RejectSave(p) \/ AnswerUnreadable(p) \/ LoseSave(p) PROVE TypeInv'
  <2>1. counted /\ UNCHANGED <<screen, review, reading, dirty>>
    BY <1>10 DEF RejectSave, AnswerUnreadable, LoseSave
  <2>2. QED
    BY <1>2, <1>3, <1>10, <2>1, EndTypes, EditorUntouched
<1>11. ASSUME NEW p \in Saves, SaveAnswered(p) PROVE TypeInv'
  <2>1. counted
    BY <1>11 DEF SaveAnswered
  <2>2. QED
    BY <1>2, <1>3, <1>11, <2>1, EndTypes, AnsweredTypes
<1>12. CASE HandleLate
  <2>1. counted /\ UNCHANGED <<screen, review, reading, dirty>>
    BY <1>12 DEF HandleLate
  <2>2. QED
    BY <1>2, <1>3, <1>12, <2>1, LateTypes, EditorUntouched
<1>13. CASE DraftArrives \/ DraftUnreadable \/ Autosave
  <2>1. counted
    BY <1>13 DEF DraftArrives, DraftUnreadable, Autosave
  <2>2. QED
    BY <1>2, <1>3, <1>13, <2>1, DraftTypes
<1>14. CASE ReopenPage
  <2>1. counted
    BY <1>14 DEF ReopenPage
  <2>2. QED
    BY <1>2, <1>3, <1>14, <2>1, ReopenTypes
<1>15. CASE OtherSaves
  <2>1. counted
    BY <1>15 DEF OtherSaves
  <2>2. QED
    BY <1>2, <1>3, <1>15, <2>1, OtherTypes
<1>16. CASE UNCHANGED vars
  <2>1. counted
    BY <1>16 DEF vars
  <2>2. EditorTypes(n)' /\ ServerTypes(n, k)' /\ ClientTypes(n, k)'
    BY <1>2, <1>16 DEF vars, EditorTypes, ServerTypes, ClientTypes
  <2>3. QED
    BY <1>3, <2>1, <2>2
<1>17. QED
  BY <1>4, <1>7, <1>8, <1>9, <1>10, <1>11, <1>12, <1>13, <1>14, <1>15, <1>16 DEF Next

\* The first state is typed.
LEMMA InitTypes == Init => TypeInv
<1> SUFFICES ASSUME Init PROVE TypeInv
  OBVIOUS
<1>1. UsedOK /\ used.texts = 0
  <2>1. session.texts \in Nat /\ session.keys \in Nat /\ session \in Sessions
    BY SessionAssumption DEF Init
  <2>2. QED
    BY <2>1 DEF Init, UsedOK, MaxTexts, MaxKeys
<1>2. PICK n \in Nat, k \in Nat : n = used.texts /\ k = MaxKeys
  BY <1>1, Counts
<1>3. EditorTypes(n)
  BY FirstTypes DEF Init, EditorTypes, Screens
<1>4. ServerTypes(n, k)
  BY SessionAssumption DEF Init, ServerTypes
<1>5. ClientTypes(n, k)
  <2>1. NoPut.phase = "idle" /\ NoPut \in Puts(n, k)
    BY NoPutTypes DEF NoPut
  <2>2. QED
    BY <2>1, FirstTypes DEF Init, ClientTypes, Loads
<1>6. QED
  BY <1>1, <1>2, <1>3, <1>4, <1>5 DEF TypeInv

\* The state keeps its types, counted by the texts and keys made so far.
THEOREM TypesCorrect == Spec => []TypeInv
BY InitTypes, TypesStep, PTL DEF Spec

\* Every variable has its type, one load runs at most, and the review state is
\* what the screen shows.
THEOREM TypeCorrect == Spec => []TypeOK
<1>1. ASSUME TypeInv PROVE TypeOK
  <2>1. PICK n \in Nat, m \in Nat, k \in Nat :
          n = used.texts /\ m = MaxTexts /\ k = MaxKeys /\ n <= m
    BY <1>1, Counts DEF TypeInv
  <2>2. EditorTypes(m) /\ ServerTypes(m, k) /\ ClientTypes(m, k) /\ session \in Sessions
    BY <1>1, <2>1, TypesGrow DEF TypeInv, UsedOK
  <2>3. Contents = Known(m) /\ Reviews = Drafts(m) /\ Payloads = Asked(m)
    BY <2>1 DEF Contents, Reviews, Payloads, Known, Drafts, Asked
  <2>4. QED
    BY <2>1, <2>2, <2>3 DEF TypeOK, EditorTypes, ServerTypes, ClientTypes, Puts
<1>2. QED
  BY <1>1, TypesCorrect, PTL

-----------------------------------------------------------------------------
(* What the clients have seen: component by component. *)

\* The server's version only grows, by one save at a time.
LEMMA VersionGrows ==
  ASSUME TypeInv, [Next]_vars
  PROVE  /\ server.version \in Nat /\ server'.version \in {server.version, server.version + 1}
         /\ \A v \in Nat : \A b : Seen(v, b) => Seen(v, b)'
<1>1. server.version \in Nat
  BY SessionAssumption DEF TypeInv, ServerTypes
<1>2. server'.version \in {server.version, server.version + 1}
  <2>1. CASE server' = server
    BY <2>1
  <2>2. ASSUME NEW r, Accept(r) PROVE server'.version = server.version + 1
    BY <2>2 DEF Accept
  <2>3. CASE OtherSaves
    BY <2>3 DEF OtherSaves
  <2>4. QED
    BY <2>1, <2>2, <2>3
       DEF Next, vars, ReadHeader, ReadSegments, TranscriptLoaded, MinutesLoaded, LoadFailed,
           Reload, LiveText, AddSegment, ReviewSegments, DeleteSegment, NewRecording,
           MinutesGenerated, EditMinutes, Edit, ClickSave, HandleSave, RejectSave, AnswerUnreadable,
           LoseSave, SaveAnswered, HandleLate, DraftArrives, DraftUnreadable, Autosave, ReopenPage
<1>3. \A v \in Nat : \A b : Seen(v, b) => Seen(v, b)'
  BY <1>1, <1>2 DEF Seen
<1>4. QED
  BY <1>1, <1>2, <1>3

\* A save that is accepted started from the version it replaces.
LEMMA AcceptedSeen ==
  ASSUME TypeInv, NEW r, Accept(r), Current(r), Seen(r.payload[1], r.basis)
  PROVE  NoBlindOverwrite' /\ server'.version = server.version + 1
<1>1. server.version \in Nat
  BY SessionAssumption DEF TypeInv, ServerTypes
<1>2. r.basis = server.version
  BY <1>1 DEF Current, Seen
<1>3. server'.version = server.version + 1 /\ server'.basis = server.version
  BY <1>2 DEF Accept
<1>4. QED
  BY <1>1, <1>3 DEF NoBlindOverwrite

\* No step accepts a save over a version its author has not seen, and the
\* receipts stay behind the server.
LEMMA ServerSeen ==
  ASSUME TypeInv, SeenInv, [Next]_vars
  PROVE  /\ NoBlindOverwrite' /\ \A x \in receipts' : x.version <= server'.version
<1>1. server.version \in Nat /\ \A x \in receipts : x.version \in Nat /\ x.version <= server.version
  BY SessionAssumption DEF TypeInv, ServerTypes, SeenInv
<1>2. CASE UNCHANGED <<server, receipts>>
  BY <1>2 DEF SeenInv, NoBlindOverwrite
<1>3. ASSUME NEW r, Accept(r), Current(r), Seen(r.payload[1], r.basis)
      PROVE  NoBlindOverwrite' /\ \A x \in receipts' : x.version <= server'.version
  <2>1. NoBlindOverwrite' /\ server'.version = server.version + 1
    BY <1>3, AcceptedSeen
  <2>2. \A x \in receipts' : x \in receipts \/ x.version = server.version + 1
    BY <1>3 DEF Accept
  <2>3. QED
    BY <1>1, <2>1, <2>2
<1>4. CASE OtherSaves
  BY <1>1, <1>4 DEF OtherSaves, NoBlindOverwrite
<1>5. CASE \E p \in Saves : HandleSave(p)
  <2>1. PICK p \in Saves : HandleSave(p)
    BY <1>5
  <2>2. CASE Current(put[p]) /\ Accept(put[p])
    <3>1. Seen(put[p].payload[1], put[p].basis)
      BY DEF SeenInv
    <3>2. QED
      BY <1>3, <2>2, <3>1
  <2>3. QED
    BY <1>2, <2>1, <2>2 DEF HandleSave
<1>6. CASE HandleLate
  <2>1. PICK r \in late : (Current(r) /\ Accept(r)) \/ UNCHANGED <<server, receipts>>
    BY <1>6 DEF HandleLate
  <2>2. Seen(r.payload[1], r.basis)
    BY DEF SeenInv
  <2>3. QED
    BY <1>2, <1>3, <2>1, <2>2
<1>7. QED
  BY <1>2, <1>4, <1>5, <1>6
     DEF Next, vars, ReadHeader, ReadSegments, TranscriptLoaded, MinutesLoaded, LoadFailed, Reload,
         LiveText, AddSegment, ReviewSegments, DeleteSegment, NewRecording, MinutesGenerated,
         EditMinutes, Edit, ClickSave, RejectSave, AnswerUnreadable, LoseSave, SaveAnswered,
         DraftArrives, DraftUnreadable, Autosave, ReopenPage

\* What an answer of a load leaves on the screen has been seen, or is old.
LEMMA LoadedSeen ==
  ASSUME TypeInv, SeenInv
  PROVE  /\ Loaded.version \in Nat /\ Seen(Loaded.version, Loaded.basis)
         /\ screen.version \in Nat /\ server.version \in Nat
<1>1. /\ screen \in Screens(used.texts) /\ load.version \in Nat /\ server.version \in Nat
      /\ screen.version \in Nat
  BY SessionAssumption DEF TypeInv, EditorTypes, ClientTypes, ServerTypes, Screens
<1>2. CASE load.version = 0
  <2>1. Loaded.version = 0 /\ Loaded.basis = screen.basis
    BY <1>1, <1>2 DEF Loaded, Screens
  <2>2. QED
    BY <1>1, <2>1 DEF SeenInv, Seen
<1>3. CASE load.version # 0 /\ Unwanted
  BY <1>1, <1>3 DEF Loaded, SeenInv
<1>4. CASE load.version # 0 /\ ~Unwanted
  BY <1>1, <1>4 DEF Loaded, SeenInv, Shown
<1>5. QED
  BY <1>1, <1>2, <1>3, <1>4

\* Every step leaves a version on screen whose text was seen if it is still the
\* server's, and a review state that is old, stored, or of that screen.
LEMMA ScreenSeen ==
  ASSUME TypeInv, SeenInv, [Next]_vars
  PROVE  /\ screen'.version \in Nat /\ Seen(screen'.version, screen'.basis)
         /\ \/ review' \in {None, review, stored}
            \/ review' = FreshReview(screen')
         /\ review' # None /\ review' # review /\ review' = stored => stored # None
<1>1. screen \in Screens(used.texts) /\ screen.version \in Nat /\ server.version \in Nat
      /\ Seen(screen.version, screen.basis)
  BY LoadedSeen DEF TypeInv, EditorTypes, Screens, SeenInv
<1> DEFINE ok == /\ screen'.version \in Nat /\ Seen(screen'.version, screen'.basis)
                 /\ review' \in {None, review, stored} \/ review' = FreshReview(screen')
                 /\ review' # None /\ review' # review /\ review' = stored => stored # None
<1>2. ASSUME NEW s, Show(s), s.version \in Nat, Seen(s.version, s.basis) PROVE ok
  BY <1>2 DEF Show
<1>3. ASSUME UNCHANGED <<screen, review>> PROVE ok
  BY <1>1, <1>3
<1>4. CASE ReadHeader \/ ReadSegments \/ Reload \/ HandleLate \/ Autosave \/ OtherSaves
           \/ UNCHANGED vars
  BY <1>3, <1>4 DEF ReadHeader, ReadSegments, Reload, HandleLate, Autosave, OtherSaves, vars
<1>5. ASSUME NEW p \in Saves, \/ ClickSave(p) \/ HandleSave(p) \/ RejectSave(p)
                               \/ AnswerUnreadable(p) \/ LoseSave(p)
      PROVE  ok
  BY <1>3, <1>5 DEF ClickSave, HandleSave, RejectSave, AnswerUnreadable, LoseSave
<1>6. CASE TranscriptLoaded \/ MinutesLoaded \/ LoadFailed
  <2>1. PICK s, r : s = Loaded /\ r = screen
    OBVIOUS
  <2>2. s.version \in Nat /\ Seen(s.version, s.basis) /\ r.version \in Nat /\ Seen(r.version, r.basis)
    BY <1>1, <2>1, LoadedSeen
  <2>3. Show(s) \/ Ready(s) \/ Show(r) \/ Ready(r)
    BY <1>6, <2>1 DEF TranscriptLoaded, MinutesLoaded, LoadFailed
  <2>4. QED
    BY <1>2, <2>2, <2>3 DEF Ready
<1>7. ASSUME NEW c, Show(Typed(c)) \/
                    Show([screen EXCEPT !.content = c, !.edited = TRUE, !.typed = FALSE]) PROVE ok
  <2>1. PICK s, r : s = Typed(c)
                    /\ r = [screen EXCEPT !.content = c, !.edited = TRUE, !.typed = FALSE]
    OBVIOUS
  <2>2. /\ s.version = screen.version /\ s.basis = screen.basis
        /\ r.version = screen.version /\ r.basis = screen.basis
    BY <1>1, <2>1 DEF Typed, Screens
  <2>3. QED
    BY <1>1, <1>2, <1>7, <2>1, <2>2
<1>8. ASSUME NEW d, Edit(d) PROVE ok
  <2>1. PICK c : c = Stored(0, used'.texts)
    OBVIOUS
  <2>2. QED
    BY <1>7, <1>8, <2>1 DEF Edit
<1>9. CASE LiveText \/ AddSegment \/ ReviewSegments \/ DeleteSegment \/ NewRecording
           \/ MinutesGenerated \/ EditMinutes
  BY <1>7, <1>8, <1>9 DEF LiveText, AddSegment, ReviewSegments, DeleteSegment, NewRecording,
       MinutesGenerated, EditMinutes
<1>10. ASSUME NEW p \in Saves, SaveAnswered(p) PROVE ok
  <2>1. put[p].version \in Nat /\ put[p].version <= server.version
    BY SessionAssumption DEF TypeInv, ClientTypes, Puts, SeenInv
  <2>2. PICK s : s = Shown(put[p].version, Stored(put[p].version, put[p].payload[2]))
    OBVIOUS
  <2>3. s.version = put[p].version /\ s.basis = put[p].version
    BY <2>2 DEF Shown, Stored
  <2>4. Seen(s.version, s.basis)
    BY <1>1, <2>1, <2>3 DEF Seen
  <2>5. QED
    BY <1>2, <1>3, <1>10, <2>1, <2>2, <2>3, <2>4 DEF SaveAnswered
<1>11. CASE DraftArrives
  <2>1. CASE Fits(stored) /\ review' = stored
             /\ screen' = [screen EXCEPT !.content = stored.content, !.edited = TRUE,
                                         !.basis = stored.basis]
    <3>1. screen'.version = screen.version /\ screen'.basis = stored.basis
      BY <1>1, <2>1 DEF Screens
    <3>2. QED
      BY <1>1, <2>1, <3>1 DEF Fits, SeenInv
  <2>2. CASE review' = FreshReview(screen) /\ screen' = screen
    BY <1>1, <2>2 DEF DraftArrives, FreshReview
  <2>3. QED
    BY <1>11, <2>1, <2>2 DEF DraftArrives
<1>12. CASE DraftUnreadable
  BY <1>1, <1>12 DEF DraftUnreadable
<1>13. CASE ReopenPage
  <2>1. screen'.version = 0 /\ screen'.basis = 0 /\ review' = None
    BY <1>13 DEF ReopenPage, FirstScreen
  <2>2. Seen(0, 0)
    BY <1>1 DEF Seen
  <2>3. QED
    BY <1>1, <2>1, <2>2
<1>14. QED
  BY <1>4, <1>5, <1>6, <1>9, <1>10, <1>11, <1>12, <1>13 DEF Next

\* What the requests of this tab started from.
LEMMA PutSeen ==
  ASSUME TypeInv, SeenInv, [Next]_vars
  PROVE  \A p \in Saves : /\ put'[p].payload[1] \in Nat
                          /\ Seen(put[p].payload[1], put[p].basis)'
                          /\ put'[p].version <= server'.version
<1>1. PICK n \in Nat, k \in Nat : n = used.texts /\ k = MaxKeys
  BY Counts DEF TypeInv
<1>2. /\ put \in [Saves -> Puts(n, k)] /\ screen \in Screens(n) /\ screen.version \in Nat
      /\ server.version \in Nat /\ server'.version \in Nat /\ server'.version >= server.version
      /\ \A v \in Nat : \A b : Seen(v, b) => Seen(v, b)'
  BY <1>1, LoadedSeen, VersionGrows DEF TypeInv, ClientTypes, EditorTypes, Screens
<1> DEFINE fine(q) == /\ q.payload[1] \in Nat /\ q.version \in Nat /\ q.version <= server'.version
                      /\ \/ q.payload[1] < server'.version
                         \/ q.payload[1] = server'.version /\ q.basis = q.payload[1]
<1>3. \A p \in Saves : fine(put[p])
  <2>1. \A p \in Saves : /\ put[p].payload[1] \in Nat /\ put[p].version \in Nat
                         /\ Seen(put[p].payload[1], put[p].basis)
                         /\ put[p].version <= server.version
    BY <1>2, SessionAssumption DEF Puts, Asked, SeenInv
  <2>2. QED
    BY <1>2, <2>1 DEF Seen
<1>4. fine(NoPut)
  BY <1>2 DEF NoPut
<1>5. ASSUME NEW p \in Saves, NEW q, fine(q), put' = [put EXCEPT ![p] = q]
      PROVE  \A x \in Saves : fine(put'[x])
  <2>1. \A x \in Saves : put'[x] = IF x = p THEN q ELSE put[x]
    BY <1>2, <1>5
  <2>2. QED
    BY <1>3, <1>5, <2>1
<1>6. ASSUME put' = put PROVE \A x \in Saves : fine(put'[x])
  BY <1>3, <1>6
<1>7. \A x \in Saves : fine(put'[x])
  <2>1. ASSUME NEW p \in Saves, ClickSave(p) PROVE \A x \in Saves : fine(put'[x])
    <3>1. PICK key : put' \in {put, [put EXCEPT ![p] = [NoPut EXCEPT !.phase = "sent",
             !.key = key, !.payload = <<screen.version, screen.content.text>>, !.basis = screen.basis]]}
      BY <2>1 DEF ClickSave
    <3>2. PICK q : q = [NoPut EXCEPT !.phase = "sent", !.key = key,
                          !.payload = <<screen.version, screen.content.text>>, !.basis = screen.basis]
      OBVIOUS
    <3>3. q.payload[1] = screen.version /\ q.basis = screen.basis /\ q.version = 0
      BY <3>2 DEF NoPut
    <3>4. fine(q)
      <4>1. Seen(screen.version, screen.basis)'
               \/ (screen.version < server'.version
                     \/ (screen.version = server'.version /\ screen.basis = screen.version))
        BY <1>2 DEF SeenInv, Seen
      <4>2. screen.version < server'.version
                     \/ (screen.version = server'.version /\ screen.basis = screen.version)
        BY <1>2 DEF SeenInv, Seen
      <4>3. QED
        BY <1>2, <3>3, <4>2
    <3>5. QED
      BY <1>5, <1>6, <3>1, <3>2, <3>4
  <2>2. ASSUME NEW p \in Saves, HandleSave(p) PROVE \A x \in Saves : fine(put'[x])
    <3>1. put[p] \in Puts(n, k)
      BY <1>2
    <3>2. ASSUME NEW phase, NEW version, version \in Nat, version <= server'.version,
                 put' = [put EXCEPT ![p] = [put[p] EXCEPT !.phase = phase, !.version = version]]
          PROVE  \A x \in Saves : fine(put'[x])
      <4>1. PICK q : q = [put[p] EXCEPT !.phase = phase, !.version = version]
        OBVIOUS
      <4>2. q.payload = put[p].payload /\ q.basis = put[p].basis /\ q.version = version
        BY <3>1, <4>1 DEF Puts
      <4>3. fine(q)
        BY <1>3, <3>2, <4>2
      <4>4. QED
        BY <1>5, <3>2, <4>1, <4>3
    <3>3. CASE \E x \in Receipt(put[p]) :
                 put' = [put EXCEPT ![p].phase = "saved", ![p].version = x.version]
      <4>1. PICK x \in Receipt(put[p]) :
                 put' = [put EXCEPT ![p].phase = "saved", ![p].version = x.version]
        BY <3>3
      <4>2. x.version \in Nat /\ x.version <= server.version
        BY SessionAssumption DEF Receipt, SeenInv, TypeInv, ServerTypes
      <4>3. PICK phase, version : phase = "saved" /\ version = x.version
        OBVIOUS
      <4>4. put' = [put EXCEPT ![p] = [put[p] EXCEPT !.phase = phase, !.version = version]]
        BY <1>2, <4>1, <4>3
      <4>5. version \in Nat /\ version <= server'.version
        BY <1>2, <4>2, <4>3
      <4>6. QED
        BY <3>2, <4>4, <4>5
    <3>4. CASE Accept(put[p]) /\
                 put' = [put EXCEPT ![p].phase = "saved", ![p].version = server.version + 1]
      <4>1. PICK phase, version : phase = "saved" /\ version = server.version + 1
        OBVIOUS
      <4>2. put' = [put EXCEPT ![p] = [put[p] EXCEPT !.phase = phase, !.version = version]]
        BY <1>2, <3>4, <4>1
      <4>3. server'.version = server.version + 1
        BY <3>4 DEF Accept
      <4>4. version \in Nat /\ version <= server'.version
        BY <1>2, <4>1, <4>3
      <4>5. QED
        BY <3>2, <4>2, <4>4
    <3>5. CASE put' = [put EXCEPT ![p].phase = "conflict"]
      <4>1. PICK phase, version : phase = "conflict" /\ version = put[p].version
        OBVIOUS
      <4>2. put' = [put EXCEPT ![p] = [put[p] EXCEPT !.phase = phase, !.version = version]]
        BY <1>2, <3>1, <3>5, <4>1 DEF Puts
      <4>3. QED
        BY <1>3, <3>2, <4>1, <4>2
    <3>6. QED
      BY <2>2, <3>3, <3>4, <3>5 DEF HandleSave
  <2>3. ASSUME NEW p \in Saves, RejectSave(p) \/ AnswerUnreadable(p) \/ LoseSave(p) \/ SaveAnswered(p)
        PROVE  \A x \in Saves : fine(put'[x])
    <3>1. PICK q, r : q = [put[p] EXCEPT !.phase = "sent", !.attempt = 2] /\ r = NoPut
      OBVIOUS
    <3>2. put' = [put EXCEPT ![p] = q] \/ put' = [put EXCEPT ![p] = r]
      BY <1>2, <2>3, <3>1 DEF RejectSave, AnswerUnreadable, LoseSave, SaveAnswered
    <3>3. q.payload = put[p].payload /\ q.basis = put[p].basis /\ q.version = put[p].version
      BY <1>2, <3>1 DEF Puts
    <3>4. fine(q) /\ fine(r)
      BY <1>3, <1>4, <3>1, <3>3
    <3>5. QED
      BY <1>5, <3>2, <3>4
  <2>4. CASE ReopenPage
    BY <1>4, <2>4 DEF ReopenPage
  <2>5. QED
    BY <1>6, <2>1, <2>2, <2>3, <2>4
       DEF Next, vars, ReadHeader, ReadSegments, TranscriptLoaded, MinutesLoaded, LoadFailed, Reload,
           LiveText, AddSegment, ReviewSegments, DeleteSegment, NewRecording, MinutesGenerated,
           EditMinutes, Edit, HandleLate, DraftArrives, DraftUnreadable, Autosave, OtherSaves
<1>8. QED
  BY <1>7 DEF Seen

\* What it reads and keeps: loads, drafts and requests on their way.
LEMMA RestSeen ==
  ASSUME TypeInv, SeenInv, [Next]_vars
  PROVE  /\ Seen(load.version, load.content.saved)'
         /\ \A r \in late' : Seen(r.payload[1], r.basis)'
         /\ stored' # None => Seen(stored.base, stored.basis)'
<1>1. PICK n \in Nat, k \in Nat : n = used.texts /\ k = MaxKeys
  BY Counts DEF TypeInv
<1>2. /\ put \in [Saves -> Puts(n, k)] /\ load \in Loads(n) /\ load.version \in Nat
      /\ server.version \in Nat /\ server'.version \in Nat /\ server'.version >= server.version
      /\ \A v \in Nat : \A b : Seen(v, b) => Seen(v, b)'
  BY <1>1, SessionAssumption, VersionGrows DEF TypeInv, ClientTypes, Loads
<1>3. Seen(0, 0)' /\ Seen(server.version, server.version)
  BY <1>2 DEF Seen
<1>4. Seen(load.version, load.content.saved)'
  <2>1. CASE load' = load
    BY <1>2, <2>1 DEF SeenInv, Seen
  <2>2. CASE load'.version = 0 /\ load'.content = Empty
    BY <1>3, <2>2 DEF Empty, Seen
  <2>3. CASE ReadHeader
    <3>1. load'.version = server.version /\ load'.content = Stored(server.version, server.text)
          /\ server' = server
      BY <1>2, <2>3 DEF ReadHeader, Loads
    <3>2. QED
      BY <1>2, <3>1 DEF Stored, Seen
  \* The segments may be those of a later version than the header's.
  <2>4. CASE ReadSegments
    <3>1. load'.version = load.version /\ load'.content = Stored(server.version, server.text)
          /\ server' = server
      BY <1>2, <2>4 DEF ReadSegments, Loads
    <3>2. load.version <= server.version
      BY <1>2 DEF SeenInv, Seen
    <3>3. QED
      BY <1>2, <3>1, <3>2 DEF Stored, Seen
  <2>5. CASE TranscriptLoaded \/ MinutesLoaded \/ LoadFailed \/ Reload \/ ReopenPage
    <3>1. /\ NoLoad.version = 0 /\ NoLoad.content = Empty
          /\ FirstLoad.version = 0 /\ FirstLoad.content = Empty
      BY DEF FirstLoad, NoLoad
    <3>2. AskedLoad.version = 0 /\ AskedLoad.content = Empty
      BY DEF NoLoad, AskedLoad
    <3>3. load'.version = 0 /\ load'.content = Empty
      BY <2>5, <3>1, <3>2 DEF TranscriptLoaded, MinutesLoaded, LoadFailed, Reload, ReopenPage
    <3>4. QED
      BY <2>2, <3>3
  <2>6. QED
    BY <2>1, <2>3, <2>4, <2>5
       DEF Next, vars, LiveText, AddSegment, ReviewSegments, DeleteSegment, NewRecording,
           MinutesGenerated, EditMinutes, Edit, ClickSave, HandleSave, RejectSave, AnswerUnreadable,
           LoseSave, SaveAnswered, HandleLate, DraftArrives, DraftUnreadable, Autosave, OtherSaves
<1>5. \A r \in late' : Seen(r.payload[1], r.basis)'
  <2>1. \A r \in late : r.payload[1] \in Nat /\ Seen(r.payload[1], r.basis)
    BY SessionAssumption DEF TypeInv, ServerTypes, Asked, SeenInv
  <2>2. \A p \in Saves : /\ put[p].payload[1] \in Nat /\ Seen(put[p].payload[1], put[p].basis)
                         /\ Request(p).payload = put[p].payload /\ Request(p).basis = put[p].basis
    BY <1>2, SessionAssumption DEF Puts, Asked, SeenInv, Request
  <2>3. \A r \in late' : r \in late \/ \E p \in Saves : r = Request(p)
    <3>1. CASE late' \subseteq late
      BY <3>1
    <3>2. ASSUME NEW p \in Saves, LoseSave(p)
          PROVE  \A r \in late' : r \in late \/ \E q \in Saves : r = Request(q)
      BY <3>2 DEF LoseSave, Request
    <3>3. CASE ReopenPage
      BY <3>3 DEF ReopenPage, Request
    <3>4. QED
      BY <3>1, <3>2, <3>3
         DEF Next, vars, ReadHeader, ReadSegments, TranscriptLoaded, MinutesLoaded, LoadFailed,
             Reload, LiveText, AddSegment, ReviewSegments, DeleteSegment, NewRecording,
             MinutesGenerated, EditMinutes, Edit, ClickSave, HandleSave, RejectSave,
             AnswerUnreadable, SaveAnswered, HandleLate, DraftArrives, DraftUnreadable, Autosave,
             OtherSaves
  <2>4. \A r \in late' : r.payload[1] \in Nat /\ Seen(r.payload[1], r.basis)
    BY <2>1, <2>2, <2>3
  <2>5. QED
    BY <1>2, <2>4 DEF Seen
<1>6. stored' # None => Seen(stored.base, stored.basis)'
  <2>1. /\ stored # None => stored.base \in Nat /\ Seen(stored.base, stored.basis)
        /\ review # None => review.base \in Nat /\ Seen(review.base, review.basis)
    BY SessionAssumption DEF TypeInv, ClientTypes, EditorTypes, Drafts, SeenInv
  <2>2. stored' \in {stored, review}
    BY DEF Next, vars, ReadHeader, ReadSegments, TranscriptLoaded, MinutesLoaded, LoadFailed,
           Reload, LiveText, AddSegment, ReviewSegments, DeleteSegment, NewRecording,
           MinutesGenerated, EditMinutes, Edit, ClickSave, HandleSave, RejectSave, AnswerUnreadable,
           LoseSave, SaveAnswered, HandleLate, DraftArrives, DraftUnreadable, Autosave, ReopenPage,
           OtherSaves
  <2>3. QED
    BY <1>2, <2>1, <2>2 DEF Seen
<1>7. QED
  BY <1>4, <1>5, <1>6

\* Every step keeps it that whoever holds the server's version has seen it.
LEMMA SeenStep == TypeInv /\ SeenInv /\ [Next]_vars => SeenInv'
<1> SUFFICES ASSUME TypeInv, SeenInv, [Next]_vars PROVE SeenInv'
  OBVIOUS
<1>1. Seen(screen.version, screen.basis)'
  BY ScreenSeen, VersionGrows DEF Seen
<1>2. review' # None => Seen(review.base, review.basis)'
  <2>1. /\ stored # None => stored.base \in Nat /\ Seen(stored.base, stored.basis)
        /\ review # None => review.base \in Nat /\ Seen(review.base, review.basis)
    BY SessionAssumption DEF TypeInv, ClientTypes, EditorTypes, Drafts, SeenInv
  <2>2. CASE review' = FreshReview(screen')
    BY <1>1, <2>2 DEF FreshReview, Seen
  <2>3. CASE review' \in {None, review, stored}
    BY <2>1, <2>3, VersionGrows DEF Seen
  <2>4. QED
    BY <2>2, <2>3, ScreenSeen
<1>3. /\ NoBlindOverwrite' /\ \A x \in receipts' : x.version <= server'.version
  BY ServerSeen
<1>4. \A p \in Saves : Seen(put[p].payload[1], put[p].basis)' /\ put'[p].version <= server'.version
  BY PutSeen
<1>5. /\ Seen(load.version, load.content.saved)'
      /\ \A r \in late' : Seen(r.payload[1], r.basis)'
      /\ stored' # None => Seen(stored.base, stored.basis)'
  BY RestSeen
<1>6. QED
  BY <1>1, <1>2, <1>3, <1>4, <1>5 DEF SeenInv, Seen

\* Everything a client could save with a version that is still the server's
\* comes from an author who has seen that version.
THEOREM SeenCorrect == Spec => []SeenInv
<1>1. Init => SeenInv
  BY DEF Init, SeenInv, Seen, NoBlindOverwrite, FirstScreen, FirstLoad, NoLoad, NoPut, Empty
<1>2. QED
  BY <1>1, SeenStep, TypesCorrect, PTL DEF Spec

\* A save of this tab that is accepted replaces a text its author had seen.
THEOREM NothingOverwrittenBlindly == Spec => []NoBlindOverwrite
<1>1. SeenInv => NoBlindOverwrite
  BY DEF SeenInv
<1>2. QED
  BY <1>1, SeenCorrect, PTL

-----------------------------------------------------------------------------
(* What was typed stays until the user asks for something else. *)

LEMMA ShowTyped ==
  ASSUME TypeInv, NEW s, Show(s), reading.phase = "before" => ~s.typed,
         reading.phase = "reading" /\ s.typed =>
           s.content = Empty \/ s.content # reading.initial
  PROVE  TypedInv'
<1>1. /\ screen' = s /\ reading'.initial = reading.initial
      /\ reading'.phase \in {reading.phase, "abandoned"}
  BY DEF Show, TypeInv, EditorTypes
<1>2. QED
  BY <1>1 DEF TypedInv

\* Every step keeps what was typed during the read of the draft apart from what
\* that read started with.
LEMMA TypedStep == TypeInv /\ TypedInv /\ [Next]_vars => TypedInv'
<1> SUFFICES ASSUME TypeInv, TypedInv, [Next]_vars PROVE TypedInv'
  OBVIOUS
<1>1. /\ screen \in Screens(used.texts) /\ reading.initial \in Known(used.texts)
      /\ used.texts \in Nat /\ reading.phase \in {"before", "reading", "done", "unreadable", "abandoned"}
  BY Counts DEF TypeInv, EditorTypes, Screens
<1>2. CASE UNCHANGED <<screen, reading>>
  BY <1>2 DEF TypedInv
<1>3. CASE TranscriptLoaded \/ MinutesLoaded \/ LoadFailed
  <2>1. PICK s, r : s = Loaded /\ r = screen
    OBVIOUS
  <2>2. s.typed = FALSE \/ (s.typed = screen.typed /\ s.content = screen.content)
    BY <1>1, <2>1 DEF Loaded, Shown, Screens
  <2>3. Show(s) \/ Ready(s) \/ Show(r) \/ Ready(r)
    BY <1>3, <2>1 DEF TranscriptLoaded, MinutesLoaded, LoadFailed
  <2>4. ASSUME NEW q, q.typed = FALSE \/ (q.typed = screen.typed /\ q.content = screen.content),
               Show(q) \/ Ready(q)
        PROVE  TypedInv'
    <3>1. CASE Show(q)
      BY <2>4, <3>1, ShowTyped DEF TypedInv
    <3>2. CASE reading.phase = "before" /\ screen' = q /\ reading'.phase = "reading"
      BY <2>4, <3>2 DEF TypedInv
    <3>3. QED
      BY <2>4, <3>1, <3>2 DEF Ready
  <2>5. QED
    BY <2>1, <2>2, <2>3, <2>4
\* What is typed is empty or new.
<1>4. ASSUME NEW c, c = Empty \/ c # reading.initial, Show(Typed(c)) PROVE TypedInv'
  <2>1. PICK s : s = Typed(c)
    OBVIOUS
  <2>2. s.content = c /\ s.typed = (screen.typed \/ reading.phase = "reading")
    BY <1>1, <2>1 DEF Typed, Screens
  <2>3. QED
    BY <1>4, <2>1, <2>2, ShowTyped DEF TypedInv
<1>5. ASSUME NEW d, Edit(d) PROVE TypedInv'
  <2>1. used'.texts = used.texts + 1
    BY <1>5 DEF Edit, TypeInv, UsedOK
  <2>2. PICK c : c = Stored(0, used'.texts)
    OBVIOUS
  <2>3. c.text = used.texts + 1
    BY <2>1, <2>2 DEF Stored
  <2>4. c # reading.initial
    BY <1>1, <2>3 DEF Known
  <2>5. QED
    BY <1>4, <1>5, <2>2, <2>4 DEF Edit
<1>6. CASE NewRecording
  <2>1. PICK s : s = [screen EXCEPT !.content = Empty, !.edited = TRUE, !.typed = FALSE]
    OBVIOUS
  <2>2. s.typed = FALSE
    BY <1>1, <2>1 DEF Screens
  <2>3. QED
    BY <1>6, <2>1, <2>2, ShowTyped DEF NewRecording
<1>7. CASE LiveText \/ AddSegment \/ ReviewSegments \/ DeleteSegment \/ MinutesGenerated \/ EditMinutes
  <2>1. PICK c : c = Empty
    OBVIOUS
  <2>2. Show(Typed(Empty)) => TypedInv'
    BY <1>4, <2>1
  <2>3. QED
    BY <1>5, <1>7, <2>2 DEF LiveText, AddSegment, ReviewSegments, DeleteSegment, MinutesGenerated,
         EditMinutes
<1>8. ASSUME NEW p \in Saves, SaveAnswered(p) PROVE TypedInv'
  <2>1. PICK s : s = Shown(put[p].version, Stored(put[p].version, put[p].payload[2]))
    OBVIOUS
  <2>2. s.typed = FALSE
    BY <2>1 DEF Shown
  <2>3. QED
    BY <1>2, <1>8, <2>1, <2>2, ShowTyped DEF SaveAnswered
<1>9. CASE DraftArrives \/ DraftUnreadable
  <2>1. reading'.phase \in {"done", "unreadable"}
    BY <1>9 DEF DraftArrives, DraftUnreadable, TypeInv, EditorTypes
  <2>2. QED
    BY <2>1 DEF TypedInv
<1>10. CASE ReopenPage
  BY <1>10 DEF ReopenPage, FirstScreen, TypedInv
<1>11. QED
  BY <1>2, <1>3, <1>5, <1>6, <1>7, <1>8, <1>9, <1>10
     DEF Next, vars, ReadHeader, ReadSegments, Reload, ClickSave, HandleSave, RejectSave,
         AnswerUnreadable, LoseSave, HandleLate, Autosave, OtherSaves

\* What is typed while the stored draft is being read differs from what the
\* read compares with when it ends.
THEOREM TypingIsNoticed == Spec => []TypedInv
<1>1. Init => TypedInv
  BY DEF Init, TypedInv, NotRead, FirstScreen
<1>2. QED
  BY <1>1, TypedStep, TypesCorrect, PTL DEF Spec

\* EditsAreKept: the first load, a failed load, a refused or lost save and a stored
\* draft that was being read leave what was typed on screen; the steps that the code
\* lets replace it are the ones UnaskedKeepsEdits lists.
THEOREM EditsAreKept == Spec => UnaskedKeepsEdits
<1> DEFINE A ==
      (screen.edited /\ screen.content \notin {Empty, screen'.content} /\ used'.pages = used.pages)
        => \/ screen'.content = Empty
           \/ used'.texts # used.texts
           \/ \E p \in Saves : /\ put[p].phase = "saved" /\ put'[p].phase = "idle"
                               /\ screen'.content = Stored(put[p].version, put[p].payload[2])
           \/ load.asked /\ load.phase = "answered" /\ screen'.content = load.content
           \/ /\ reading.phase = "reading" /\ reading'.phase = "done" /\ ~screen.typed
              /\ screen'.content = stored.content
<1>1. TypeInv /\ TypedInv /\ [Next]_vars => [A]_vars
  <2> SUFFICES ASSUME TypeInv, TypedInv, Next, screen.edited, screen.content # Empty,
                      screen.content # screen'.content, screen'.content # Empty,
                      used'.pages = used.pages, used'.texts = used.texts
               PROVE  \/ \E p \in Saves : /\ put[p].phase = "saved" /\ put'[p].phase = "idle"
                                          /\ screen'.content = Stored(put[p].version, put[p].payload[2])
                      \/ load.asked /\ load.phase = "answered" /\ screen'.content = load.content
                      \/ /\ reading.phase = "reading" /\ reading'.phase = "done" /\ ~screen.typed
                         /\ screen'.content = stored.content
    OBVIOUS
  <2>1. screen \in Screens(used.texts) /\ put \in [Saves -> Puts(used.texts, MaxKeys)]
    BY DEF TypeInv, EditorTypes, ClientTypes, Screens
  <2>2. CASE UNCHANGED screen
    BY <2>2
  <2>3. CASE TranscriptLoaded \/ MinutesLoaded \/ LoadFailed
    <3>1. PICK s, r : s = Loaded /\ r = screen
      OBVIOUS
    <3>2. screen' = s \/ screen' = r
      BY <2>3, <3>1 DEF TranscriptLoaded, MinutesLoaded, LoadFailed, Ready, Show
    <3>3. screen' = s
      BY <3>1, <3>2
    <3>4. ~Unwanted
      BY <2>1, <3>1, <3>3 DEF Loaded, Screens
    <3>5. load.asked
      BY <3>4 DEF Unwanted
    <3>6. load.phase = "answered"
      BY <2>2, <2>3, <3>1, <3>3 DEF TranscriptLoaded, MinutesLoaded, LoadFailed, Ready, Show
    <3>7. screen'.content = load.content
      BY <2>1, <3>1, <3>3, <3>4 DEF Loaded, Shown, Screens
    <3>8. QED
      BY <3>5, <3>6, <3>7
  <2>4. ASSUME NEW d, Edit(d) PROVE FALSE
    BY <2>4, Counts DEF Edit, TypeInv, UsedOK
  <2>5. CASE NewRecording \/ Show(Typed(Empty))
    BY <2>1, <2>5 DEF NewRecording, Show, Typed, Screens
  <2>6. CASE LiveText \/ AddSegment \/ ReviewSegments \/ DeleteSegment \/ MinutesGenerated \/ EditMinutes
    BY <2>4, <2>5, <2>6 DEF LiveText, AddSegment, ReviewSegments, DeleteSegment, MinutesGenerated,
         EditMinutes
  <2>7. ASSUME NEW p \in Saves, SaveAnswered(p)
        PROVE  \E q \in Saves : /\ put[q].phase = "saved" /\ put'[q].phase = "idle"
                               /\ screen'.content = Stored(put[q].version, put[q].payload[2])
    <3>1. put[p].phase = "saved"
      BY <2>2, <2>7 DEF SaveAnswered
    <3>2. put'[p].phase = "idle"
      BY <2>1, <2>7 DEF SaveAnswered, NoPut
    <3>3. screen'.content = Stored(put[p].version, put[p].payload[2])
      BY <2>7, <3>1 DEF SaveAnswered, Show, Shown
    <3>4. QED
      BY <3>1, <3>2, <3>3
  \* The draft is restored only over what is still shown as it was.
  <2>8. CASE DraftArrives
    <3>1. screen.content = reading.initial
      BY <2>2, <2>8 DEF DraftArrives, ChangedMeanwhile
    <3>2. reading.phase = "reading" /\ reading'.phase = "done"
      BY <2>8 DEF DraftArrives, TypeInv, EditorTypes
    <3>3. screen'.content = stored.content
      BY <2>1, <2>2, <2>8 DEF DraftArrives, Screens
    <3>4. QED
      BY <3>1, <3>2, <3>3 DEF TypedInv
  <2>9. CASE ReopenPage
    BY <2>9 DEF ReopenPage, TypeInv, UsedOK
  <2>10. QED
    BY <2>2, <2>3, <2>5, <2>6, <2>7, <2>8, <2>9
       DEF Next, ReadHeader, ReadSegments, Reload, ClickSave, HandleSave, RejectSave,
           AnswerUnreadable, LoseSave, HandleLate, DraftUnreadable, Autosave, OtherSaves
<1>2. QED
  BY <1>1, TypingIsNoticed, TypesCorrect, PTL DEF Spec, UnaskedKeepsEdits

-----------------------------------------------------------------------------
(* Retries: a key stands for one payload, and the key of what is written    *)
(* here is kept until it has a definite answer.                             *)

Active(p) == put[p].phase # "idle"
Sent == receipts \cup late \cup {put[p] : p \in {q \in Saves : Active(q)}}

KeysInv ==
  /\ \A x \in Sent : x.key <= used.keys
  /\ \A x, y \in Sent : x.key = y.key => x.payload = y.payload
  /\ mutation # None =>
       /\ mutation.key <= used.keys /\ mutation.payload[2] # 0
       /\ \A x \in Sent : x.key = mutation.key => x.payload = mutation.payload

\* The minutes: one save at a time, loads that are not torn, no stored draft.
OneSave ==
  /\ \A p, q \in Saves : Active(p) /\ Active(q) => p = q
  /\ \A p \in Saves : Active(p) =>
       mutation # None /\ mutation.key = put[p].key /\ mutation.payload = put[p].payload
  /\ \A p \in Saves : put[p].phase = "saved" => put[p].version > 0
  /\ \A p \in Saves : put[p].phase = "conflict" =>
       put[p].payload[1] < server.version /\ \A r \in receipts : r.key # put[p].key

LoadsWhole ==
  load.phase # "header" /\ load.content.saved = load.version /\ reading.phase = "before"

Written == screen.content.saved = 0 /\ screen.content.text # 0
ShownPayload == <<screen.version, screen.content.text>>

\* It can never be accepted, and never was.
Refused(payload) ==
  payload[1] < server.version /\ \A r \in receipts : r.payload # payload

\* What is written here and sent has the key that the next click takes.
KeyKept ==
  Written =>
    /\ \/ Refused(ShownPayload)
       \/ \A x \in Sent : x.payload = ShownPayload =>
            mutation # None /\ mutation.payload = ShownPayload /\ mutation.key = x.key
    /\ \A x \in Sent : x.payload[2] = screen.content.text =>
         x.payload[1] = screen.version \/ screen.version = 0

\* No attempt was rejected, and no OK answer could not be read: these drop the
\* key of a save that may be stored.
Heard == ~used.rejected /\ ~used.unread

MinutesInv ==
  doc = "minutes" => OneSave /\ LoadsWhole /\ (Heard => KeyKept)

\* What is sent was clicked: a save that is handled, lost, late or left behind
\* keeps its key and its payload.
LEMMA SentKept ==
  ASSUME TypeInv, [Next]_vars, \A p \in Saves : ~ClickSave(p)
  PROVE  /\ \A x \in Sent' : \E y \in Sent : y.key = x.key /\ y.payload = x.payload
         /\ mutation' \in {None, mutation} /\ used'.keys = used.keys
<1>1. PICK n \in Nat, k \in Nat : n = used.texts /\ k = MaxKeys
  BY Counts DEF TypeInv
<1>2. put \in [Saves -> Puts(n, k)] /\ UsedOK
  BY <1>1 DEF TypeInv, ClientTypes
<1> DEFINE ok == /\ \A x \in Sent' : \E y \in Sent : y.key = x.key /\ y.payload = x.payload
                 /\ mutation' \in {None, mutation} /\ used'.keys = used.keys
<1>3. ASSUME UNCHANGED <<receipts, late, put, mutation>>, used'.keys = used.keys PROVE ok
  BY <1>3 DEF Sent, Active
<1>4. CASE ReadHeader \/ ReadSegments \/ TranscriptLoaded \/ MinutesLoaded \/ Reload
           \/ NewRecording \/ DraftArrives \/ Autosave \/ OtherSaves \/ UNCHANGED vars
  BY <1>3, <1>4 DEF ReadHeader, ReadSegments, TranscriptLoaded, MinutesLoaded, Reload, NewRecording,
       DraftArrives, Autosave, OtherSaves, vars
<1>5. ASSUME NEW d, Edit(d) PROVE ok
  BY <1>2, <1>3, <1>5 DEF Edit, UsedOK
<1>6. CASE LoadFailed \/ DraftUnreadable
  BY <1>2, <1>3, <1>6 DEF LoadFailed, DraftUnreadable, UsedOK
<1>7. CASE LiveText \/ AddSegment \/ ReviewSegments \/ DeleteSegment \/ MinutesGenerated \/ EditMinutes
  BY <1>3, <1>5, <1>7 DEF LiveText, AddSegment, ReviewSegments, DeleteSegment, MinutesGenerated,
       EditMinutes
<1>8. ASSUME NEW p \in Saves, NEW q,
             Active(p), put' = [put EXCEPT ![p] = q],
             q.phase = "idle" \/ (q.key = put[p].key /\ q.payload = put[p].payload),
             \A x \in receipts' \cup late' : x \in receipts \cup late
               \/ (x.key = put[p].key /\ x.payload = put[p].payload)
      PROVE  \A x \in Sent' : \E y \in Sent : y.key = x.key /\ y.payload = x.payload
  <2>1. put[p] \in Sent
    BY <1>8 DEF Sent
  <2>2. \A r \in Saves : put'[r] = IF r = p THEN q ELSE put[r]
    BY <1>2, <1>8
  <2>3. \A r \in Saves : put'[r].phase # "idle" =>
          put'[r] \in Sent \/ (put'[r].key = put[p].key /\ put'[r].payload = put[p].payload)
    BY <1>8, <2>2 DEF Sent, Active
  <2>4. \A x \in Sent' : \/ x \in receipts' \cup late'
                         \/ \E r \in Saves : put'[r].phase # "idle" /\ x = put'[r]
    BY DEF Sent, Active
  <2>5. \A x \in Sent' : x \in Sent \/ (x.key = put[p].key /\ x.payload = put[p].payload)
    BY <1>8, <2>3, <2>4 DEF Sent
  <2>6. QED
    BY <2>1, <2>5
<1>9. ASSUME NEW p \in Saves, HandleSave(p) PROVE ok
  <2>1. /\ UNCHANGED <<late, mutation, used>> /\ Active(p)
        /\ receipts' = receipts \/ Accept(put[p])
    BY <1>9 DEF HandleSave, Active
  <2>2. \A x \in receipts' : x \in receipts \/ (x.key = put[p].key /\ x.payload = put[p].payload)
    BY <2>1 DEF Accept
  <2>3. put' = [put EXCEPT ![p] = put'[p]]
    BY <1>2, <1>9 DEF HandleSave
  <2>4. put[p] \in Puts(n, k)
    BY <1>2
  <2>5. put'[p].key = put[p].key /\ put'[p].payload = put[p].payload
    BY <1>2, <1>9, <2>4 DEF HandleSave, Puts
  <2>6. PICK q : q = put'[p]
    OBVIOUS
  <2>7. QED
    BY <1>8, <2>1, <2>2, <2>3, <2>5, <2>6
<1>10. ASSUME NEW p \in Saves, RejectSave(p) \/ AnswerUnreadable(p) \/ SaveAnswered(p) PROVE ok
  <2>1. /\ put' = [put EXCEPT ![p] = NoPut] /\ UNCHANGED <<receipts, late>> /\ Active(p)
        /\ mutation' = None
    BY <1>10 DEF RejectSave, AnswerUnreadable, SaveAnswered, Active
  <2>2. used'.keys = used.keys
    BY <1>2, <1>10 DEF RejectSave, AnswerUnreadable, SaveAnswered, UsedOK
  <2>3. PICK q : q = NoPut
    OBVIOUS
  <2>4. q.phase = "idle"
    BY <2>3 DEF NoPut
  <2>5. QED
    BY <1>8, <2>1, <2>2, <2>3, <2>4
<1>11. ASSUME NEW p \in Saves, LoseSave(p) PROVE ok
  <2>1. /\ UNCHANGED <<receipts, mutation>> /\ Active(p)
        /\ \A x \in late' : x \in late \/ x = Request(p)
    BY <1>11 DEF LoseSave, Active, Request
  <2>2. used'.keys = used.keys
    BY <1>2, <1>11 DEF LoseSave, UsedOK
  <2>3. put' = [put EXCEPT ![p] = put'[p]] /\ put[p] \in Puts(n, k)
    BY <1>2, <1>11 DEF LoseSave
  <2>4. put'[p] \in {NoPut, [put[p] EXCEPT !.phase = "sent", !.attempt = 2]}
    BY <1>2, <1>11 DEF LoseSave
  <2>5. put'[p].phase = "idle" \/ (put'[p].key = put[p].key /\ put'[p].payload = put[p].payload)
    <3>1. CASE put'[p] = NoPut
      BY <3>1 DEF NoPut
    <3>2. CASE put'[p] = [put[p] EXCEPT !.phase = "sent", !.attempt = 2]
      BY <2>3, <3>2 DEF Puts
    <3>3. QED
      BY <2>4, <3>1, <3>2
  <2>6. PICK q : q = put'[p]
    OBVIOUS
  <2>7. Request(p).key = put[p].key /\ Request(p).payload = put[p].payload
    BY DEF Request
  <2>8. QED
    BY <1>8, <2>1, <2>2, <2>3, <2>5, <2>6, <2>7
<1>12. CASE HandleLate
  <2>1. PICK r \in late : late' = late \ {r} /\ (Accept(r) \/ receipts' = receipts)
    BY <1>12 DEF HandleLate
  <2>2. UNCHANGED <<put, mutation, used>>
    BY <1>12 DEF HandleLate
  <2>3. \A x \in receipts' : x \in receipts \/ (x.key = r.key /\ x.payload = r.payload)
    BY <2>1 DEF Accept
  <2>4. QED
    BY <2>1, <2>2, <2>3 DEF Sent, Active
<1>13. CASE ReopenPage
  <2>1. /\ late' = late \cup {Request(p) : p \in {q \in Saves : put[q].phase = "sent"}}
        /\ receipts' = receipts /\ put' = [p \in Saves |-> NoPut] /\ mutation' = None
    BY <1>13 DEF ReopenPage, Request
  <2>2. used'.keys = used.keys
    BY <1>2, <1>13 DEF ReopenPage, UsedOK
  <2>3. \A p \in Saves : ~Active(p)'
    BY <2>1 DEF Active, NoPut
  <2>4. \A x \in Sent' : x \in receipts \cup late
           \/ \E p \in Saves : put[p].phase = "sent" /\ x = Request(p)
    BY <2>1, <2>3 DEF Sent
  <2>5. \A p \in Saves : put[p].phase = "sent" =>
          put[p] \in Sent /\ Request(p).key = put[p].key /\ Request(p).payload = put[p].payload
    BY DEF Sent, Active, Request
  <2>6. QED
    BY <2>1, <2>2, <2>4, <2>5 DEF Sent
<1>14. QED
  BY <1>4, <1>6, <1>7, <1>9, <1>10, <1>11, <1>12, <1>13 DEF Next

\* A click sends what is shown, under the key of the last attempt if there is
\* one of the same payload.
LEMMA Clicked ==
  ASSUME TypeInv, NEW p \in Saves, ClickSave(p)
  PROVE  \E key \in Nat :
           /\ mutation' = [payload |-> ShownPayload, key |-> key] /\ mutation' # None
           /\ \/ SameMutation(ShownPayload) /\ key = mutation.key /\ used'.keys = used.keys
              \/ /\ ~SameMutation(ShownPayload) /\ key = used.keys + 1 /\ used'.keys = key
           /\ \A x \in Sent' : x \in Sent \/ (x.key = key /\ x.payload = ShownPayload)
           /\ UNCHANGED <<screen, receipts, late, server, load, reading>>
           /\ ShownPayload[2] # 0
<1>1. PICK n \in Nat, k \in Nat : n = used.texts /\ k = MaxKeys
  BY Counts DEF TypeInv
<1>2. /\ put \in [Saves -> Puts(n, k)] /\ UsedOK /\ used.keys \in Nat
      /\ screen.version \in 0..MaxVersion /\ screen.content.text \in 0..n
      /\ mutation \in {None} \cup [payload : Asked(n), key : 1..k]
  BY <1>1, Counts DEF TypeInv, ClientTypes, EditorTypes, Known
<1> DEFINE same == SameMutation(ShownPayload)
<1>3. PICK key : key = IF same THEN mutation.key ELSE used.keys + 1
  OBVIOUS
<1>4. key \in Nat
  BY <1>2, <1>3 DEF SameMutation
<1>5. PICK sent : sent = [NoPut EXCEPT !.phase = "sent", !.key = key, !.payload = ShownPayload,
                                       !.basis = screen.basis]
  OBVIOUS
<1>6. /\ mutation' = [payload |-> ShownPayload, key |-> key]
      /\ used' = [used EXCEPT !.keys = IF same THEN @ ELSE key]
      /\ put' = put \/ put' = [put EXCEPT ![p] = sent]
      /\ UNCHANGED <<screen, receipts, late, server, load, reading>>
  BY <1>3, <1>5 DEF ClickSave, ShownPayload
<1>7. mutation' # None
  <2>1. ShownPayload \in Nat \X Nat
    BY <1>2, SessionAssumption DEF ShownPayload
  <2>2. QED
    BY <1>4, <1>6, <2>1, SessionAssumption
<1>8. used'.keys = IF same THEN used.keys ELSE key
  BY <1>2, <1>6 DEF UsedOK
<1>9. \A x \in Sent' : x \in Sent \/ (x.key = key /\ x.payload = ShownPayload)
  <2>1. sent.key = key /\ sent.payload = ShownPayload
    BY <1>5 DEF NoPut
  <2>2. \A q \in Saves : put'[q] = put[q] \/ put'[q] = sent
    BY <1>2, <1>6
  <2>3. QED
    BY <1>6, <2>1, <2>2 DEF Sent, Active
<1>10. ShownPayload[2] # 0
  BY DEF ClickSave, MayClickSave, ShownPayload
<1>11. QED
  BY <1>3, <1>4, <1>6, <1>7, <1>8, <1>9, <1>10

\* The keys stay one to a payload: a click makes a new one or repeats its own.
LEMMA KeysStep == TypeInv /\ KeysInv /\ [Next]_vars => KeysInv'
<1> SUFFICES ASSUME TypeInv, KeysInv, [Next]_vars PROVE KeysInv'
  OBVIOUS
<1>0. used.keys \in Nat /\ \A x \in Sent : x.key \in Nat
  <2>1. PICK n \in Nat, k \in Nat : n = used.texts /\ k = MaxKeys
    BY Counts DEF TypeInv
  <2>2. ServerTypes(n, k) /\ ClientTypes(n, k)
    BY <2>1 DEF TypeInv
  <2>3. QED
    BY <2>2, Counts DEF TypeInv, ServerTypes, ClientTypes, Puts, Sent
<1>1. CASE \A p \in Saves : ~ClickSave(p)
  BY <1>1, SentKept DEF KeysInv
<1>2. ASSUME NEW p \in Saves, ClickSave(p) PROVE KeysInv'
  <2>1. PICK key \in Nat :
           /\ mutation' = [payload |-> ShownPayload, key |-> key]
           /\ \/ SameMutation(ShownPayload) /\ key = mutation.key /\ used'.keys = used.keys
              \/ ~SameMutation(ShownPayload) /\ key = used.keys + 1 /\ used'.keys = key
           /\ \A x \in Sent' : x \in Sent \/ (x.key = key /\ x.payload = ShownPayload)
           /\ ShownPayload[2] # 0
    BY <1>2, Clicked
  <2>2. mutation'.payload = ShownPayload /\ mutation'.key = key /\ ShownPayload[2] # 0
    BY <2>1
  <2>3. \A x \in Sent : x.key = key => x.payload = ShownPayload
    BY <1>0, <2>1 DEF KeysInv, SameMutation
  <2>4. key <= used'.keys /\ used.keys <= used'.keys /\ used'.keys \in Nat
    BY <1>0, <2>1 DEF KeysInv, SameMutation
  <2>5. \A x \in Sent' : x.key <= used'.keys
    BY <1>0, <2>1, <2>4 DEF KeysInv
  <2>6. \A x, y \in Sent' : x.key = y.key => x.payload = y.payload
    BY <2>1, <2>3 DEF KeysInv
  <2>7. \A x \in Sent' : x.key = key => x.payload = ShownPayload
    BY <2>1, <2>3
  <2>8. QED
    BY <2>2, <2>4, <2>5, <2>6, <2>7 DEF KeysInv
<1>3. QED
  BY <1>1, <1>2

\* The minutes are loaded in one read, and no draft of a review is restored.
LEMMA LoadsStep ==
  ASSUME TypeInv, [Next]_vars, doc = "minutes", LoadsWhole
  PROVE  LoadsWhole' /\ doc' = "minutes"
<1>1. load \in Loads(used.texts) /\ reading.phase = "before"
  BY DEF TypeInv, ClientTypes, Loads, LoadsWhole
<1>2. doc' = "minutes"
  BY DEF Next, vars, doc, ReadHeader, ReadSegments, TranscriptLoaded, MinutesLoaded, LoadFailed,
         Reload, LiveText, AddSegment, ReviewSegments, DeleteSegment, NewRecording,
         MinutesGenerated, EditMinutes, Edit, ClickSave, HandleSave, RejectSave, AnswerUnreadable,
         LoseSave, SaveAnswered, HandleLate, DraftArrives, DraftUnreadable, Autosave, ReopenPage,
         OtherSaves
<1>3. reading'.phase = "before"
  <2>1. ASSUME NEW s, Show(s) PROVE reading'.phase = "before"
    BY <1>1, <2>1 DEF Show, TypeInv, EditorTypes
  <2>2. CASE reading' = reading \/ reading' = NotRead
    BY <1>1, <2>2 DEF NotRead
  <2>3. CASE MinutesLoaded \/ LoadFailed
    <3>1. PICK s, r : s = Loaded /\ r = screen
      OBVIOUS
    <3>2. Show(s) \/ Show(r)
      BY <2>3, <3>1 DEF MinutesLoaded, LoadFailed
    <3>3. QED
      BY <2>1, <3>2
  <2>4. ASSUME NEW d, Edit(d) PROVE reading'.phase = "before"
    <3>1. PICK s : s = Typed(Stored(0, used'.texts))
      OBVIOUS
    <3>2. QED
      BY <2>1, <2>4, <3>1 DEF Edit
  <2>5. ASSUME NEW p \in Saves, SaveAnswered(p) PROVE reading'.phase = "before"
    <3>1. PICK s : s = Shown(put[p].version, Stored(put[p].version, put[p].payload[2]))
      OBVIOUS
    <3>2. QED
      BY <2>1, <2>2, <2>5, <3>1 DEF SaveAnswered
  <2>6. QED
    BY <1>1, <2>2, <2>3, <2>4, <2>5
       DEF Next, vars, ReadHeader, ReadSegments, TranscriptLoaded, Reload, LiveText, AddSegment,
           ReviewSegments, DeleteSegment, NewRecording, MinutesGenerated, EditMinutes,
           ClickSave, HandleSave, RejectSave, AnswerUnreadable, LoseSave, HandleLate, DraftArrives,
           DraftUnreadable, Autosave, ReopenPage, OtherSaves
<1>4. load'.phase # "header" /\ load'.content.saved = load'.version
  <2>1. CASE load' = load
    BY <2>1 DEF LoadsWhole
  <2>2. CASE ReadHeader
    <3>1. load'.version = server.version /\ load'.content = Stored(server.version, server.text)
          /\ load'.phase = "answered"
      BY <1>1, <2>2 DEF ReadHeader, Loads
    <3>2. QED
      BY <3>1 DEF Stored
  <2>3. CASE load' \in {NoLoad, FirstLoad, AskedLoad}
    <3>1. CASE load' = NoLoad
      BY <3>1 DEF NoLoad, Empty
    <3>2. CASE load' = FirstLoad
      BY <3>2 DEF FirstLoad, NoLoad, Empty
    <3>3. CASE load' = AskedLoad
      BY <3>3 DEF NoLoad, AskedLoad, Empty
    <3>4. QED
      BY <2>3, <3>1, <3>2, <3>3
  <2>4. QED
    BY <2>1, <2>2, <2>3
       DEF LoadsWhole, Next, vars, ReadSegments, TranscriptLoaded, MinutesLoaded, LoadFailed,
           Reload, LiveText, AddSegment, ReviewSegments, DeleteSegment, NewRecording,
           MinutesGenerated, EditMinutes, Edit, ClickSave, HandleSave, RejectSave, AnswerUnreadable,
           LoseSave, SaveAnswered, HandleLate, DraftArrives, DraftUnreadable, Autosave, ReopenPage,
           OtherSaves
<1>5. QED
  BY <1>2, <1>3, <1>4 DEF LoadsWhole

\* The button is disabled while a save runs.
LEMMA NoneRuns ==
  ASSUME doc = "minutes", NEW p \in Saves, MayClickSave(p)
  PROVE  \A q \in Saves : ~Active(q)
<1> DEFINE running == {q \in Saves : put[q].phase # "idle"}
<1>1. Cardinality(running) < 1
  BY DEF MayClickSave
<1>2. IsFiniteSet(running)
  BY SessionAssumption, FS_Subset
<1>3. Cardinality(running) \in Nat
  BY <1>2, FS_CardinalityType
<1>4. Cardinality(running) = 0
  BY <1>1, <1>3
<1>5. running = {}
  BY <1>2, <1>4, FS_EmptySet
<1>6. QED
  BY <1>5 DEF Active

\* One save of the minutes at a time, under the key that the tab remembers; the
\* conflict it was answered with is one for good.
LEMMA OneSaveStep ==
  ASSUME TypeInv, SeenInv, KeysInv, [Next]_vars, doc = "minutes", OneSave
  PROVE  OneSave'
<1>1. PICK n \in Nat, k \in Nat : n = used.texts /\ k = MaxKeys
  BY Counts DEF TypeInv
<1>2. /\ put \in [Saves -> Puts(n, k)] /\ ServerTypes(n, k)
      /\ server.version \in Nat /\ server'.version \in Nat /\ server'.version >= server.version
      /\ \A p \in Saves : put[p].payload[1] \in Nat
  BY <1>1, VersionGrows, SessionAssumption DEF TypeInv, ClientTypes, Puts, Asked
<1>3. ASSUME UNCHANGED <<put, mutation, receipts>> PROVE OneSave'
  BY <1>2, <1>3 DEF OneSave, Active
<1>4. ASSUME \A p \in Saves : put'[p].phase = "idle" PROVE OneSave'
  BY <1>4 DEF OneSave, Active
<1>5. ASSUME NEW p \in Saves, NEW q,
             put' = [put EXCEPT ![p] = q], \A r \in Saves \ {p} : ~Active(r),
             q.phase # "idle" =>
               mutation' # None /\ mutation'.key = q.key /\ mutation'.payload = q.payload,
             q.phase = "saved" => q.version > 0,
             q.phase = "conflict" =>
               q.payload[1] < server'.version /\ \A r \in receipts' : r.key # q.key
      PROVE  OneSave'
  <2>1. \A r \in Saves : put'[r] = IF r = p THEN q ELSE put[r]
    BY <1>2, <1>5
  <2>2. \A r \in Saves : r # p => put'[r].phase = "idle"
    BY <1>5, <2>1 DEF Active
  <2>3. QED
    BY <1>5, <2>1, <2>2 DEF OneSave, Active
<1>6. ASSUME NEW p \in Saves, ClickSave(p) PROVE OneSave'
  <2>1. \A r \in Saves : ~Active(r)
    BY <1>6, NoneRuns DEF ClickSave
  <2>2. CASE put' = put
    BY <1>4, <2>1, <2>2 DEF Active
  <2>3. CASE put' # put
    <3>1. PICK key \in Nat : mutation' = [payload |-> ShownPayload, key |-> key] /\ mutation' # None
      BY <1>6, Clicked
    <3>2. PICK q : q = [NoPut EXCEPT !.phase = "sent", !.key = key, !.payload = ShownPayload,
                                     !.basis = screen.basis]
      OBVIOUS
    <3>3. put' = [put EXCEPT ![p] = [NoPut EXCEPT !.phase = "sent", !.key = mutation'.key,
                                     !.payload = ShownPayload, !.basis = screen.basis]]
      BY <1>6, <2>3 DEF ClickSave, ShownPayload
    <3>4. put' = [put EXCEPT ![p] = q]
      BY <3>1, <3>2, <3>3
    <3>5. q.phase = "sent" /\ q.key = key /\ q.payload = ShownPayload
      BY <3>2 DEF NoPut
    <3>6. QED
      BY <1>5, <2>1, <3>1, <3>4, <3>5
  <2>4. QED
    BY <2>2, <2>3
<1>7. ASSUME NEW p \in Saves, RejectSave(p) \/ AnswerUnreadable(p) \/ SaveAnswered(p) PROVE OneSave'
  <2>1. put' = [put EXCEPT ![p] = NoPut] /\ Active(p)
    BY <1>7 DEF RejectSave, AnswerUnreadable, SaveAnswered, Active
  <2>2. PICK q : q = NoPut
    OBVIOUS
  <2>3. q.phase = "idle"
    BY <2>2 DEF NoPut
  <2>4. \A r \in Saves \ {p} : ~Active(r)
    BY <2>1 DEF OneSave
  <2>5. QED
    BY <1>5, <2>1, <2>2, <2>3, <2>4
<1>8. ASSUME NEW p \in Saves, LoseSave(p) PROVE OneSave'
  <2>1. Active(p) /\ mutation' = mutation /\ put[p] \in Puts(n, k)
    BY <1>2, <1>8 DEF LoseSave, Active
  <2>2. \A r \in Saves \ {p} : ~Active(r)
    BY <2>1 DEF OneSave
  <2>3. PICK q : q = IF put[p].attempt = 1 THEN [put[p] EXCEPT !.phase = "sent", !.attempt = 2]
                                           ELSE NoPut
    OBVIOUS
  <2>4. put' = [put EXCEPT ![p] = q]
    BY <1>2, <1>8, <2>3 DEF LoseSave
  <2>5. \/ q.phase = "idle"
        \/ q.phase = "sent" /\ q.key = put[p].key /\ q.payload = put[p].payload
    <3>1. CASE put[p].attempt = 1
      BY <2>1, <2>3, <3>1 DEF Puts
    <3>2. CASE put[p].attempt # 1
      BY <2>3, <3>2 DEF NoPut
    <3>3. QED
      BY <3>1, <3>2
  <2>6. mutation # None /\ mutation.key = put[p].key /\ mutation.payload = put[p].payload
    BY <2>1 DEF OneSave
  <2>7. QED
    BY <1>5, <2>1, <2>2, <2>4, <2>5, <2>6
<1>9. ASSUME NEW p \in Saves, HandleSave(p) PROVE OneSave'
  <2>1. Active(p) /\ UNCHANGED mutation /\ put[p] \in Puts(n, k)
    BY <1>2, <1>9 DEF HandleSave, Active
  <2>2. \A r \in Saves \ {p} : ~Active(r)
    BY <2>1 DEF OneSave
  <2>3. mutation # None /\ mutation.key = put[p].key /\ mutation.payload = put[p].payload
    BY <2>1 DEF OneSave
  <2>4. ASSUME NEW v, v > 0,
               put' = [put EXCEPT ![p] = [put[p] EXCEPT !.phase = "saved", !.version = v]]
        PROVE  OneSave'
    <3>1. PICK q : q = [put[p] EXCEPT !.phase = "saved", !.version = v]
      OBVIOUS
    <3>2. q.phase = "saved" /\ q.version = v /\ q.key = put[p].key /\ q.payload = put[p].payload
      BY <2>1, <3>1 DEF Puts
    <3>3. QED
      BY <1>5, <2>1, <2>2, <2>3, <2>4, <3>1, <3>2
  <2>5. CASE \E x \in Receipt(put[p]) :
               put' = [put EXCEPT ![p].phase = "saved", ![p].version = x.version]
    <3>1. PICK x \in Receipt(put[p]) :
               put' = [put EXCEPT ![p].phase = "saved", ![p].version = x.version]
      BY <2>5
    <3>2. PICK v : v = x.version
      OBVIOUS
    <3>3. v > 0
      BY <1>2, <3>2, SessionAssumption DEF Receipt, ServerTypes
    <3>4. put' = [put EXCEPT ![p] = [put[p] EXCEPT !.phase = "saved", !.version = v]]
      BY <1>2, <3>1, <3>2
    <3>5. QED
      BY <2>4, <3>3, <3>4
  <2>6. CASE put' = [put EXCEPT ![p].phase = "saved", ![p].version = server.version + 1]
    <3>1. PICK v : v = server.version + 1
      OBVIOUS
    <3>2. put' = [put EXCEPT ![p].phase = "saved", ![p].version = v]
      BY <2>6, <3>1
    <3>3. put' = [put EXCEPT ![p] = [put[p] EXCEPT !.phase = "saved", !.version = v]]
      BY <1>2, <3>2
    <3>4. v > 0
      BY <1>2, <3>1
    <3>5. QED
      BY <2>4, <3>3, <3>4
  <2>7. CASE /\ Receipt(put[p]) = {} /\ ~Current(put[p])
             /\ put' = [put EXCEPT ![p].phase = "conflict"] /\ UNCHANGED <<server, receipts>>
    <3>1. PICK q : q = [put[p] EXCEPT !.phase = "conflict"]
      OBVIOUS
    <3>2. q.phase = "conflict" /\ q.key = put[p].key /\ q.payload = put[p].payload
      BY <2>1, <3>1 DEF Puts
    <3>3. put[p].payload[1] < server.version
      BY <1>2, <2>7 DEF SeenInv, Seen, Current
    <3>4. \A r \in receipts : r.key # put[p].key
      BY <2>7 DEF Receipt
    <3>5. put' = [put EXCEPT ![p] = q]
      BY <1>2, <2>7, <3>1
    <3>6. q.payload[1] < server'.version /\ \A r \in receipts' : r.key # q.key
      BY <2>7, <3>2, <3>3, <3>4
    <3>7. mutation' # None /\ mutation'.key = q.key /\ mutation'.payload = q.payload
      BY <2>1, <2>3, <3>2
    <3>8. QED
      BY <1>5, <2>2, <3>2, <3>5, <3>6, <3>7
  <2>8. QED
    BY <1>9, <2>5, <2>6, <2>7 DEF HandleSave
\* A late request has the key of the conflict only if it has its payload, which
\* is refused.
<1>10. CASE HandleLate
  <2>1. PICK r \in late : (Current(r) /\ Accept(r)) \/ UNCHANGED <<server, receipts>>
    BY <1>10 DEF HandleLate
  <2>2. UNCHANGED <<put, mutation>>
    BY <1>10 DEF HandleLate
  <2>3. \A x \in receipts' : x \in receipts \/ (x.key = r.key /\ Current(r))
    BY <2>1 DEF Accept
  <2>4. \A p \in Saves : put[p].phase = "conflict" /\ r.key = put[p].key => r.payload = put[p].payload
    BY DEF KeysInv, Sent, Active
  <2>5. \A p \in Saves : put[p].phase = "conflict" => \A x \in receipts' : x.key # put[p].key
    <3>1. SUFFICES ASSUME NEW p \in Saves, put[p].phase = "conflict", NEW x \in receipts',
                          x.key = put[p].key
                   PROVE  FALSE
      OBVIOUS
    <3>2. put[p].payload[1] < server.version /\ x \notin receipts
      BY <3>1 DEF OneSave
    <3>3. r.payload = put[p].payload /\ r.payload[1] = server.version
      BY <2>3, <2>4, <3>1, <3>2 DEF Current
    <3>4. QED
      BY <1>2, <3>2, <3>3
  <2>6. \A p \in Saves : put[p].phase = "conflict" => put[p].payload[1] < server'.version
    BY <1>2 DEF OneSave
  <2>7. QED
    BY <2>2, <2>5, <2>6 DEF OneSave, Active
<1>11. CASE ReopenPage
  BY <1>4, <1>11 DEF ReopenPage, NoPut
<1>12. QED
  BY <1>3, <1>6, <1>7, <1>8, <1>9, <1>10, <1>11
     DEF Next, vars, ReadHeader, ReadSegments, TranscriptLoaded, MinutesLoaded, LoadFailed, Reload,
         LiveText, AddSegment, ReviewSegments, DeleteSegment, NewRecording, MinutesGenerated,
         EditMinutes, Edit, DraftArrives, DraftUnreadable, Autosave, OtherSaves

\* What is refused stays refused: a save that is accepted starts from the current
\* version, which is newer.
LEMMA RefusedStays ==
  ASSUME TypeInv, [Next]_vars, NEW payload, payload[1] \in Nat, Refused(payload)
  PROVE  Refused(payload)'
<1>1. PICK n \in Nat, k \in Nat : n = used.texts /\ k = MaxKeys
  BY Counts DEF TypeInv
<1>2. server.version \in Nat /\ server'.version \in Nat /\ server'.version >= server.version
  BY <1>1, VersionGrows, SessionAssumption DEF TypeInv
<1>3. \A x \in receipts' : x \in receipts \/ x.payload[1] = server.version
  <2>1. ASSUME NEW r, Current(r), Accept(r) PROVE \A x \in receipts' : x \in receipts \/ x.payload[1] = server.version
    BY <2>1 DEF Current, Accept
  <2>2. CASE UNCHANGED receipts
    BY <2>2
  <2>3. ASSUME NEW p \in Saves, HandleSave(p)
        PROVE  \A x \in receipts' : x \in receipts \/ x.payload[1] = server.version
    <3>1. PICK q : q = put[p]
      OBVIOUS
    <3>2. UNCHANGED receipts \/ (Current(q) /\ Accept(q))
      BY <2>3, <3>1 DEF HandleSave
    <3>3. QED
      BY <2>1, <2>2, <3>2
  <2>4. CASE HandleLate
    BY <2>1, <2>2, <2>4 DEF HandleLate
  <2>5. QED
    BY <2>2, <2>3, <2>4
       DEF Next, vars, ReadHeader, ReadSegments, TranscriptLoaded, MinutesLoaded, LoadFailed, Reload,
           LiveText, AddSegment, ReviewSegments, DeleteSegment, NewRecording, MinutesGenerated,
           EditMinutes, Edit, ClickSave, RejectSave, AnswerUnreadable, LoseSave, SaveAnswered,
           DraftArrives, DraftUnreadable, Autosave, ReopenPage, OtherSaves
<1>4. QED
  BY <1>2, <1>3 DEF Refused

\* An attempt that was rejected or could not be read is not forgotten.
LEMMA HeardBefore ==
  ASSUME TypeInv, [Next]_vars, Heard'
  PROVE  Heard
<1>1. UsedOK
  BY DEF TypeInv
<1>2. QED
  BY <1>1 DEF UsedOK, Heard, Next, vars, ReadHeader, ReadSegments, TranscriptLoaded, MinutesLoaded,
              LoadFailed, Reload, LiveText, AddSegment, ReviewSegments, DeleteSegment, NewRecording,
              MinutesGenerated, EditMinutes, Edit, ClickSave, HandleSave, RejectSave,
              AnswerUnreadable, LoseSave, SaveAnswered, HandleLate, DraftArrives, DraftUnreadable,
              Autosave, ReopenPage, OtherSaves

\* As long as minutes written here are on screen and every attempt was heard, the
\* key of what was sent of them is the key of the next click, or they are
\* refused for good.
LEMMA KeyKeptStep ==
  ASSUME TypeInv, KeysInv, [Next]_vars, doc = "minutes", OneSave, LoadsWhole, KeyKept,
         Heard'
  PROVE  KeyKept'
<1>1. PICK n \in Nat, k \in Nat : n = used.texts /\ k = MaxKeys
  BY Counts DEF TypeInv
<1>2. /\ UsedOK /\ EditorTypes(n) /\ ServerTypes(n, k) /\ ClientTypes(n, k)
      /\ screen.version \in Nat /\ screen.content.text \in Nat /\ ShownPayload[1] \in Nat
  BY <1>1, SessionAssumption DEF TypeInv, EditorTypes, Known, ShownPayload
<1>3. \A x \in Sent : x.payload[2] \in 0..n /\ x.payload \in Nat \X Nat
  BY <1>2, SessionAssumption DEF Sent, ServerTypes, ClientTypes, Puts, Asked
<1>4. ASSUME screen'.content.saved # 0 \/ screen'.content.text = 0 PROVE KeyKept'
  BY <1>4 DEF KeyKept, Written
<1>5. ASSUME screen'.version = screen.version, screen'.content = screen.content, mutation' = mutation,
             \A p \in Saves : ~ClickSave(p)
      PROVE  KeyKept'
  <2>1. Written' = Written /\ ShownPayload' = ShownPayload
    BY <1>5 DEF Written, ShownPayload
  <2>2. Refused(ShownPayload) => \A x \in receipts' : x.payload # ShownPayload
    BY <1>2, RefusedStays DEF Refused
  <2>3. Refused(ShownPayload) => ShownPayload[1] < server'.version
    BY <1>2, RefusedStays DEF Refused
  <2>4. \A x \in Sent' : \E y \in Sent : y.key = x.key /\ y.payload = x.payload
    BY <1>5, SentKept
  <2>5. QED
    BY <1>5, <2>1, <2>2, <2>3, <2>4 DEF KeyKept, Refused
<1>6. ASSUME NEW p \in Saves, ClickSave(p) PROVE KeyKept'
  <2>1. PICK key \in Nat :
           /\ mutation' = [payload |-> ShownPayload, key |-> key] /\ mutation' # None
           /\ SameMutation(ShownPayload) => key = mutation.key
           /\ \A x \in Sent' : x \in Sent \/ (x.key = key /\ x.payload = ShownPayload)
           /\ UNCHANGED <<screen, receipts, server>>
    BY <1>6, Clicked
  <2>2. Written' = Written /\ ShownPayload' = ShownPayload
    BY <2>1 DEF Written, ShownPayload
  <2>3. ShownPayload[1] = screen.version /\ ShownPayload[2] = screen.content.text
    BY DEF ShownPayload
  <2>4. mutation'.payload = ShownPayload /\ mutation'.key = key
    BY <2>1
  <2>5. CASE ~Refused(ShownPayload) /\ Written
    <3>1. \A x \in Sent : x.payload = ShownPayload => SameMutation(ShownPayload) /\ mutation.key = x.key
      BY <2>5 DEF KeyKept, SameMutation
    <3>2. \A x \in Sent' : x.payload = ShownPayload => x.key = key
      BY <2>1, <3>1
    <3>3. \A x \in Sent' : x.payload[2] = screen.content.text =>
            x.payload[1] = screen.version \/ screen.version = 0
      BY <2>1, <2>3, <2>5 DEF KeyKept
    <3>4. QED
      BY <2>1, <2>2, <2>4, <3>2, <3>3 DEF KeyKept
  <2>6. CASE Refused(ShownPayload) /\ Written
    <3>1. Refused(ShownPayload)'
      BY <2>1, <2>2, <2>6 DEF Refused
    <3>2. \A x \in Sent' : x.payload[2] = screen.content.text =>
            x.payload[1] = screen.version \/ screen.version = 0
      BY <2>1, <2>3, <2>6 DEF KeyKept
    <3>3. QED
      BY <2>1, <3>1, <3>2 DEF KeyKept
  <2>7. QED
    BY <2>2, <2>5, <2>6 DEF KeyKept
<1> DEFINE noClick == \A p \in Saves : ~ClickSave(p)
<1>7. CASE noClick /\ MinutesLoaded
  <2>1. screen' = Loaded /\ mutation' = mutation
    BY <1>7 DEF MinutesLoaded, Show
  <2>2. CASE load.version = 0
    <3>1. screen' = [screen EXCEPT !.version = 0]
      BY <2>1, <2>2 DEF Loaded
    <3>2. screen'.version = 0 /\ screen'.content = screen.content
      BY <1>2, <3>1 DEF EditorTypes
    <3>3. CASE screen.version = 0
      BY <1>5, <1>7, <2>1, <3>2, <3>3
    <3>4. CASE screen.version # 0
      <4>1. Written' = Written /\ ShownPayload' = <<0, screen.content.text>>
        BY <3>2 DEF Written, ShownPayload
      <4>2. Written => \A x \in Sent : x.payload # <<0, screen.content.text>>
        BY <3>4 DEF KeyKept
      <4>3. \A x \in Sent' : \E y \in Sent : y.key = x.key /\ y.payload = x.payload
        BY <1>7, SentKept
      <4>4. QED
        BY <3>2, <4>1, <4>2, <4>3 DEF KeyKept
    <3>5. QED
      BY <3>3, <3>4
  <2>3. CASE load.version # 0 /\ Unwanted
    BY <1>5, <1>7, <2>1, <2>3 DEF Loaded
  <2>4. CASE load.version # 0 /\ ~Unwanted
    <3>1. screen' = Shown(load.version, load.content)
      BY <2>1, <2>4 DEF Loaded
    <3>2. screen'.content.saved # 0
      BY <2>4, <3>1 DEF Shown, LoadsWhole
    <3>3. QED
      BY <1>4, <3>2
  <2>5. QED
    BY <2>2, <2>3, <2>4
<1>8. CASE noClick /\ Edit("minutes")
  <2>1. used'.texts = n + 1
    BY <1>1, <1>2, <1>8 DEF Edit, UsedOK
  <2>2. screen' = Typed(Stored(0, n + 1))
    BY <1>8, <2>1 DEF Edit, Show
  <2>3. screen'.content.text = n + 1
    BY <1>2, <2>2 DEF Typed, Stored, EditorTypes
  <2>4. \A x \in Sent' : x.payload[2] \in 0..n
    BY <1>3, <1>8, SentKept
  <2>5. \A x \in Sent' : x.payload[2] # screen'.content.text
    BY <2>3, <2>4
  <2>6. \A x \in Sent' : x.payload # ShownPayload'
    BY <2>5 DEF ShownPayload
  <2>7. QED
    BY <2>5, <2>6 DEF KeyKept
<1>9. ASSUME noClick, NEW p \in Saves, SaveAnswered(p) PROVE KeyKept'
  <2>1. /\ Active(p) /\ mutation' = None /\ UNCHANGED <<receipts, server>>
    BY <1>9 DEF SaveAnswered, Active
  <2>2. CASE put[p].phase = "saved"
    <3>1. screen' = Shown(put[p].version, Stored(put[p].version, put[p].payload[2]))
      BY <1>9, <2>2 DEF SaveAnswered, Show
    <3>2. screen'.content.saved = put[p].version /\ put[p].version > 0 /\ put[p].version \in Nat
      BY <1>2, <2>2, <3>1, SessionAssumption DEF Shown, Stored, OneSave, ClientTypes, Puts
    <3>3. QED
      BY <1>4, <3>2
  <2>3. CASE put[p].phase = "conflict"
    <3>1. screen' = screen
      BY <1>9, <2>3 DEF SaveAnswered
    <3>2. Written' = Written /\ ShownPayload' = ShownPayload
      BY <3>1 DEF Written, ShownPayload
    <3>3. /\ mutation.key = put[p].key /\ mutation.payload = put[p].payload
          /\ put[p].payload[1] < server.version /\ \A r \in receipts : r.key # put[p].key
      BY <2>1, <2>3 DEF OneSave
    <3>4. \A x \in Sent' : \E y \in Sent : y.key = x.key /\ y.payload = x.payload
      BY <1>9, SentKept
    <3>5. ASSUME Written, ~Refused(ShownPayload) PROVE \A x \in Sent : x.payload # ShownPayload
      <4>1. \A x \in Sent : x.payload = ShownPayload =>
              mutation.payload = ShownPayload /\ mutation.key = x.key
        BY <3>5 DEF KeyKept
      <4>2. SUFFICES ASSUME mutation.payload = ShownPayload PROVE FALSE
        BY <4>1
      <4>3. PICK r \in receipts : r.payload = ShownPayload
        BY <3>3, <3>5, <4>2 DEF Refused
      <4>4. r \in Sent
        BY DEF Sent
      <4>5. QED
        BY <3>3, <4>1, <4>3, <4>4
    <3>6. Refused(ShownPayload) => Refused(ShownPayload)'
      BY <2>1, <3>2 DEF Refused
    <3>7. Written => \A x \in Sent' : x.payload[2] = screen'.content.text =>
            x.payload[1] = screen'.version \/ screen'.version = 0
      BY <3>1, <3>4 DEF KeyKept
    <3>8. QED
      BY <3>2, <3>4, <3>5, <3>6, <3>7 DEF KeyKept
  <2>4. QED
    BY <1>9, <2>2, <2>3 DEF SaveAnswered
<1>10. ASSUME NEW p \in Saves, RejectSave(p) \/ AnswerUnreadable(p) PROVE FALSE
  BY <1>2, <1>10 DEF RejectSave, AnswerUnreadable, UsedOK, Heard
<1>11. CASE ReopenPage
  BY <1>4, <1>11 DEF ReopenPage, FirstScreen, Empty
<1>12. CASE noClick /\ LoadFailed
  <2>1. screen' = screen
    BY <1>12 DEF LoadFailed, Show, doc
  <2>2. QED
    BY <1>5, <1>12, <2>1 DEF LoadFailed
<1>13. ASSUME noClick, UNCHANGED <<screen, mutation>> PROVE KeyKept'
  BY <1>5, <1>13
<1>14. QED
  BY <1>6, <1>7, <1>8, <1>9, <1>10, <1>11, <1>12, <1>13
     DEF Next, vars, ReadHeader, ReadSegments, TranscriptLoaded, Reload, LiveText, AddSegment,
         ReviewSegments, DeleteSegment, NewRecording, MinutesGenerated, EditMinutes, Edit, HandleSave,
         LoseSave, HandleLate, DraftArrives, DraftUnreadable, Autosave, OtherSaves, LoadsWhole

\* The document of a session never changes.
LEMMA DocStays == [Next]_vars => doc' = doc
BY DEF Next, vars, doc, ReadHeader, ReadSegments, TranscriptLoaded, MinutesLoaded, LoadFailed,
       Reload, LiveText, AddSegment, ReviewSegments, DeleteSegment, NewRecording, MinutesGenerated,
       EditMinutes, Edit, ClickSave, HandleSave, RejectSave, AnswerUnreadable, LoseSave,
       SaveAnswered, HandleLate, DraftArrives, DraftUnreadable, Autosave, ReopenPage, OtherSaves

\* The three parts of MinutesInv, together.
LEMMA MinutesStep ==
  TypeInv /\ SeenInv /\ KeysInv /\ MinutesInv /\ [Next]_vars => MinutesInv'
<1> SUFFICES ASSUME TypeInv, SeenInv, KeysInv, MinutesInv, [Next]_vars, doc' = "minutes"
             PROVE  OneSave' /\ LoadsWhole' /\ (Heard' => KeyKept')
  BY DEF MinutesInv
<1>1. doc = "minutes"
  BY DocStays
<1>2. OneSave /\ LoadsWhole /\ (Heard => KeyKept)
  BY <1>1 DEF MinutesInv
<1>3. OneSave' /\ LoadsWhole'
  BY <1>1, <1>2, OneSaveStep, LoadsStep
<1>4. Heard' => KeyKept'
  BY <1>1, <1>2, HeardBefore, KeyKeptStep
<1>5. QED
  BY <1>3, <1>4

\* RetriesKeepTheirKey: in every session an idempotency key stands for one payload,
\* and while minutes are saved, one save runs under the key that the tab
\* remembers, and what is written here keeps its key until it is answered.
THEOREM RetriesKeepTheirKey == Spec => [](KeysInv /\ MinutesInv)
<1>1. Init => KeysInv /\ MinutesInv
  <2>1. SUFFICES ASSUME Init PROVE KeysInv /\ MinutesInv
    OBVIOUS
  <2>2. \A p \in Saves : put[p].phase = "idle"
    BY <2>1 DEF Init, NoPut
  <2>3. Sent = {} /\ mutation = None
    BY <2>1, <2>2 DEF Init, Sent, Active
  <2>4. ~Written
    BY <2>1 DEF Init, FirstScreen, Empty, Written
  <2>5. LoadsWhole
    BY <2>1 DEF Init, FirstLoad, NoLoad, Empty, NotRead, LoadsWhole
  <2>6. QED
    BY <2>2, <2>3, <2>4, <2>5 DEF KeysInv, MinutesInv, OneSave, KeyKept, Active
<1>2. QED
  BY <1>1, KeysStep, MinutesStep, TypesCorrect, SeenCorrect, PTL DEF Spec

\* RetriesAreNotRefused: minutes written here whose save is repeated as no answer
\* came are not refused for the version that their own first attempt has made, as
\* long as they are on screen, unless an attempt was rejected or an OK answer could
\* not be read: the code drops the key of a save that is stored then.
THEOREM RetriesAreNotRefused == Spec => []RetryNotRefused
<1>1. TypeInv /\ KeysInv /\ MinutesInv => RetryNotRefused
  <2>1. SUFFICES ASSUME TypeInv, KeysInv, MinutesInv, doc = "minutes", Heard,
                        NEW p \in Saves, NEW r \in receipts,
                        put[p].phase = "conflict", r.payload = put[p].payload,
                        screen.version = r.payload[1],
                        screen.content = Stored(0, r.payload[2])
                 PROVE  FALSE
    BY DEF RetryNotRefused, RefusedForItself, Heard
  <2>2. OneSave /\ KeyKept
    BY <2>1 DEF MinutesInv
  <2>3. /\ mutation # None /\ mutation.payload = r.payload /\ mutation.key = put[p].key
        /\ r.key # put[p].key /\ r.payload[2] # 0
    BY <2>1, <2>2 DEF OneSave, KeysInv, Active
  <2>4. r.payload \in Nat \X Nat
    <3>1. PICK n \in Nat, k \in Nat : n = used.texts /\ k = MaxKeys
      BY <2>1, Counts DEF TypeInv
    <3>2. ServerTypes(n, k)
      BY <2>1, <3>1 DEF TypeInv
    <3>3. QED
      BY <2>1, <3>2, SessionAssumption DEF ServerTypes, Asked
  <2>5. ShownPayload = r.payload /\ Written
    BY <2>1, <2>3, <2>4 DEF ShownPayload, Written, Stored
  <2>6. ~Refused(ShownPayload) /\ r \in Sent
    BY <2>5 DEF Refused, Sent
  <2>7. QED
    BY <2>2, <2>3, <2>5, <2>6 DEF KeyKept
<1>2. QED
  BY <1>1, TypesCorrect, RetriesKeepTheirKey, PTL
=============================================================================
