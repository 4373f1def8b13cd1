------------------------- MODULE ShellEditorProofs -------------------------
(* The editor of the text shell: its limits, its view and what "saved" says. *)
EXTENDS ShellEditor, TextLinesProofs, FiniteSetTheorems

LEMMA NoEditFacts == NoEdit \in Edit /\ OnText(NoEdit)
<1>1. EmptyText[1] = << >> /\ Len(EmptyText) = 1
  BY DEF EmptyText
<1>. QED BY <1>1, EmptyIsText DEF NoEdit, Edit, OnText

\* A name that is stored is found.
LEMMA Found ==
  ASSUME TypeOK, NEW n, Stored(n)
  PROVE  /\ ram_file_find(n) \in Matches(n) /\ ram_file_find(n) \in 1..Len(files)
         /\ files[ram_file_find(n)] \in File
<1>1. DOMAIN files = 1..Len(files) /\ Len(files) \in Nat
  BY LenProperties DEF TypeOK
<1>2. Matches(n) \subseteq Nat /\ Matches(n) # {}
  BY <1>1 DEF Matches, Stored
<1>3. \E i \in Matches(n) : \A j \in Matches(n) : i <= j
  BY <1>2, FirstMatch
<1>4. ram_file_find(n) \in Matches(n)
  BY <1>3 DEF ram_file_find
<1>5. ram_file_find(n) \in 1..Len(files)
  BY <1>1, <1>4 DEF Matches
<1>. QED BY <1>4, <1>5, ElementOfSeq DEF TypeOK

\* What a save leaves in the table.
LEMMA SaveStores ==
  ASSUME TypeOK, NEW n \in Names, NEW lines \in Text,
         CanSave(n), editor_save(n, lines)
  PROVE  /\ files' \in Seq(File) /\ Len(files') <= EDIT_FILE_MAX
         /\ Cut[n] = n => Stored(n)' /\ files'[ram_file_find(n)'].text = lines
<1>. DEFINE k == ram_file_find(n)
<1>1. files \in Seq(File) /\ Len(files) \in Nat /\ DOMAIN files = 1..Len(files)
  BY LenProperties DEF TypeOK
<1>2. CASE Stored(n)
  <2>1. k \in Matches(n) /\ k \in 1..Len(files) /\ files[k] \in File
    BY <1>2, Found
  <2>. HIDE DEF k
  <2>. DEFINE f == [files[k] EXCEPT !.text = lines]
  <2>2. f \in File /\ f.name = files[k].name /\ f.text = lines
    BY <2>1 DEF File
  <2>. HIDE DEF f
  <2>3. files' = [files EXCEPT ![k] = f]
    BY <1>2 DEF editor_save, k, f
  <2>4. files' \in Seq(File) /\ Len(files') = Len(files)
    BY <1>1, <2>1, <2>2, <2>3, ExceptSeq
  <2>5. DOMAIN files' = DOMAIN files /\ \A i \in DOMAIN files : files'[i].name = files[i].name
    BY <2>2, <2>3
  <2>6. Matches(n)' = Matches(n)
    BY <2>5 DEF Matches
  <2>7. ram_file_find(n)' = k
    BY <2>6 DEF ram_file_find, k
  <2>8. files'[k].text = lines
    BY <1>1, <2>1, <2>2, <2>3
  <2>. QED BY <1>2, <2>4, <2>6, <2>7, <2>8 DEF TypeOK, Stored
<1>3. CASE ~Stored(n)
  <2>. DEFINE f == [name |-> Cut[n], text |-> lines]
  <2>1. f \in File
    BY NamesAssumption DEF File
  <2>2. f.name = Cut[n] /\ f.text = lines
    OBVIOUS
  <2>. HIDE DEF f
  <2>3. files' = Append(files, f) /\ Len(files) < EDIT_FILE_MAX
    BY <1>3 DEF editor_save, CanSave, f
  <2>4. /\ files' \in Seq(File) /\ Len(files') = Len(files) + 1
        /\ \A i \in 1..Len(files) : files'[i] = files[i]
        /\ files'[Len(files) + 1] = f
    BY <1>1, <2>1, <2>3, AppendProperties
  <2>5. DOMAIN files' = 1..Len(files) + 1
    BY <1>1, <2>4, LenProperties
  <2>6. Len(files') <= EDIT_FILE_MAX
    BY <1>1, <2>3, <2>4, SizesAssumption
  <2>7. ASSUME Cut[n] = n
        PROVE  Matches(n)' = {Len(files) + 1}
    <3>1. \A i \in 1..Len(files) : files'[i].name # n
      BY <1>1, <1>3, <2>4 DEF Stored, Matches
    <3>. QED BY <1>1, <2>2, <2>4, <2>5, <2>7, <3>1 DEF Matches
  <2>8. ASSUME Cut[n] = n
        PROVE  ram_file_find(n)' = Len(files) + 1
    BY <1>1, <2>7, <2>8 DEF ram_file_find
  <2>. QED BY <2>2, <2>4, <2>6, <2>7, <2>8 DEF Stored
<1>. QED BY <1>2, <1>3

\* A key, refused or not, before the cursor is clamped.
Struck(e, key) == IF Refused(e, key) THEN e ELSE AfterKey(e, key)

LEMMA StruckFacts ==
  ASSUME NEW e \in Edit, OnText(e), NEW key \in Chars \cup MoveKeys \cup EditKeys
  PROVE  /\ Struck(e, key) \in Edit
         /\ ~Struck(e, key).dirty => Struck(e, key).text = e.text /\ ~e.dirty
<1>1. CASE Refused(e, key)
  BY <1>1 DEF Struck
<1>2. CASE ~Refused(e, key)
  <2>1. Struck(e, key) = AfterKey(e, key)
    BY <1>2 DEF Struck
  <2>. QED BY <2>1, KeysKeepLimits, CleanMeansUnchanged
<1>. QED BY <1>1, <1>2

-----------------------------------------------------------------------------
\* A stored file is found under the name the title shows only if that name
\* needs no cutting any more.
IInv ==
  /\ TypeOK
  /\ CursorInView
  /\ SavedIsStored
  /\ editing => Cut[name] = name

LEMMA InitIInv == Init => IInv
<1>. SUFFICES ASSUME Init PROVE IInv
  OBVIOUS
<1>1. files = << >> /\ name = NoName /\ edit = NoEdit /\ top = 0 /\ coloff = 0
  BY DEF Init
<1>2. TypeOK
  BY <1>1, NoEditFacts, SizesAssumption DEF TypeOK
<1>3. CursorInView
  BY <1>1, SizesAssumption DEF CursorInView, NoEdit
<1>. QED BY <1>1, <1>2, <1>3 DEF IInv, SavedIsStored, editing

LEMMA NextIInv == IInv /\ [Next]_vars => IInv'
<1>. SUFFICES ASSUME IInv, [Next]_vars PROVE IInv'
  OBVIOUS
<1>1. /\ TypeOK /\ CursorInView /\ SavedIsStored /\ (editing => Cut[name] = name)
      /\ edit \in Edit /\ OnText(edit) /\ edit.text \in Text /\ edit.dirty \in BOOLEAN
      /\ files \in Seq(File) /\ Len(files) <= EDIT_FILE_MAX
      /\ name \in Names \cup {NoName} /\ top \in Nat /\ coloff \in Nat
  BY DEF IInv, TypeOK, Edit
<1>2. ASSUME NEW args \in Names, cmd_edit(args)
      PROVE  IInv'
  <2>. DEFINE n == EditName(args)
  <2>1. n \in Names /\ Cut[n] = n /\ n # NoName
    BY NamesAssumption DEF EditName
  <2>. HIDE DEF n
  <2>2. name' = n /\ top' = 0 /\ coloff' = 0 /\ files' = files
    BY <1>2 DEF cmd_edit, n
  <2>3. edit'.text = (IF Stored(n) THEN files[ram_file_find(n)].text ELSE EmptyText)
        /\ edit'.cy = 0 /\ edit'.cx = 0 /\ edit' = [NoEdit EXCEPT !.text = edit'.text]
    BY <1>2 DEF cmd_edit, n, NoEdit
  <2>4. edit'.text \in Text
    <3>1. CASE Stored(n)
      BY <1>1, <2>3, <3>1, Found DEF File
    <3>2. CASE ~Stored(n)
      BY <2>3, <3>2, EmptyIsText
    <3>. QED BY <3>1, <3>2
  <2>5. edit' \in Edit
    BY <2>3, <2>4, NoEditFacts DEF Edit
  <2>6. OnText(edit')
    <3>1. Len(edit'.text) \in Nat /\ Len(edit'.text) >= 1 /\ edit'.text[1] \in Line
      BY <2>4, TextFacts
    <3>2. Len(edit'.text[1]) \in Nat
      BY <3>1, LineFacts
    <3>. QED BY <2>3, <3>1, <3>2 DEF OnText
  <2>7. TypeOK'
    BY <1>1, <2>1, <2>2, <2>5, <2>6 DEF TypeOK
  <2>8. CursorInView'
    BY <2>2, <2>3, SizesAssumption DEF CursorInView
  <2>9. SavedIsStored'
    <3>1. Stored(n)' = Stored(n) /\ ram_file_find(n)' = ram_file_find(n)
      BY <2>2 DEF Stored, ram_file_find, Matches
    <3>2. Stored(name)' = Stored(n)' /\ ram_file_find(name)' = ram_file_find(n)'
      BY <2>2 DEF Stored, ram_file_find, Matches
    <3>. QED BY <2>2, <2>3, <3>1, <3>2 DEF SavedIsStored
  <2>. QED BY <2>1, <2>2, <2>7, <2>8, <2>9 DEF IInv
<1>3. ASSUME NEW args \in Names, cmd_rm(args)
      PROVE  IInv'
  <2>. DEFINE k == ram_file_find(args)
  <2>1. k \in 1..Len(files)
    BY <1>1, <1>3, Found DEF cmd_rm
  <2>2. files' = SubSeq(files, 1, k - 1) \o SubSeq(files, k + 1, Len(files))
    BY <1>3 DEF cmd_rm, ram_file_delete_index
  <2>. HIDE DEF k
  <2>3. Len(files) \in Nat /\ k - 1 \in 0..Len(files) - 1 /\ k - 1 + 2 = k + 1
    BY <1>1, <2>1, LenProperties
  <2>4. files' \in Seq(File) /\ Len(files') = Len(files) - 1
    BY <1>1, <2>2, <2>3, Dropped DEF Without
  <2>5. ~editing /\ UNCHANGED <<name, edit, top, coloff>>
    BY <1>3 DEF cmd_rm
  <2>6. Len(files') <= EDIT_FILE_MAX
    BY <1>1, <2>3, <2>4, SizesAssumption
  <2>. QED BY <1>1, <2>4, <2>5, <2>6 DEF IInv, TypeOK, CursorInView, SavedIsStored, editing
<1>4. ASSUME NEW key \in Chars \cup MoveKeys \cup EditKeys, Key(key)
      PROVE  IInv'
  <2>. DEFINE e == Struck(edit, key)
  <2>1. e \in Edit /\ (~e.dirty => e.text = edit.text /\ ~edit.dirty)
    BY <1>1, StruckFacts
  <2>2. /\ editing /\ edit' = Clamp(e) /\ files' = files /\ name' = name
        /\ top' = Scrolled(top, edit'.cy, EDIT_VIEW_ROWS)
        /\ coloff' = Scrolled(coloff, edit'.cx, EDIT_VISIBLE_COLS)
    BY <1>4 DEF Key, Struck
  <2>. HIDE DEF e
  <2>3. edit' \in Edit /\ OnText(edit') /\ edit'.text = e.text /\ edit'.dirty = e.dirty
    BY <2>1, <2>2, Clamped
  <2>4. edit'.cy \in Nat /\ edit'.cx \in Nat
    BY <2>3 DEF Edit
  <2>5. top' \in Nat /\ edit'.cy \in top'..top' + EDIT_VIEW_ROWS - 1
    BY <1>1, <2>2, <2>4, SizesAssumption, ScrolledToCursor
  <2>6. coloff' \in Nat /\ edit'.cx \in coloff'..coloff' + EDIT_VISIBLE_COLS - 1
    BY <1>1, <2>2, <2>4, SizesAssumption, ScrolledToCursor
  <2>7. TypeOK'
    BY <1>1, <2>2, <2>3, <2>5, <2>6 DEF TypeOK
  <2>8. SavedIsStored'
    <3>1. Stored(name)' = Stored(name) /\ ram_file_find(name)' = ram_file_find(name)
      BY <2>2 DEF Stored, ram_file_find, Matches
    <3>. QED BY <1>1, <2>1, <2>2, <2>3, <3>1 DEF SavedIsStored
  <2>. QED BY <1>1, <2>2, <2>5, <2>6, <2>7, <2>8 DEF IInv, CursorInView, editing
<1>5. ASSUME CanSave(name), editor_save(name, edit.text), editing
      PROVE  /\ files' \in Seq(File) /\ Len(files') <= EDIT_FILE_MAX
             /\ name' = name => Stored(name)' /\ files'[ram_file_find(name)'].text = edit.text
  <2>1. name \in Names /\ Cut[name] = name
    BY <1>1, <1>5 DEF editing
  <2>2. PICK n \in Names, lines \in Text : n = name /\ lines = edit.text
    BY <1>1, <2>1
  <2>3. CanSave(n) /\ editor_save(n, lines) /\ Cut[n] = n
    BY <1>5, <2>1, <2>2 DEF CanSave, editor_save, Stored, ram_file_find, Matches
  <2>4. /\ files' \in Seq(File) /\ Len(files') <= EDIT_FILE_MAX
        /\ Stored(n)' /\ files'[ram_file_find(n)'].text = lines
    BY <1>1, <2>3, SaveStores
  <2>5. ASSUME name' = name
        PROVE  Stored(name)' /\ files'[ram_file_find(name)'].text = lines
    BY <2>2, <2>4, <2>5 DEF Stored, ram_file_find, Matches
  <2>. QED BY <2>2, <2>4, <2>5
<1>6. CASE F7
  <2>1. editing /\ UNCHANGED <<name, top, coloff>>
    BY <1>6 DEF F7
  <2>2. CASE CanSave(name) /\ editor_save(name, edit.text) /\ edit' = [edit EXCEPT !.dirty = FALSE]
    <3>1. /\ files' \in Seq(File) /\ Len(files') <= EDIT_FILE_MAX
          /\ Stored(name)' /\ files'[ram_file_find(name)'].text = edit.text
      BY <1>5, <2>1, <2>2
    <3>2. /\ edit' \in Edit /\ edit'.text = edit.text
          /\ edit'.cy = edit.cy /\ edit'.cx = edit.cx
      BY <1>1, <2>2 DEF Edit
    <3>3. OnText(edit')
      BY <1>1, <3>2 DEF OnText
    <3>4. TypeOK'
      BY <1>1, <2>1, <3>1, <3>2, <3>3 DEF TypeOK
    <3>5. CursorInView'
      BY <1>1, <2>1, <3>2 DEF CursorInView
    <3>. QED BY <1>1, <2>1, <3>1, <3>2, <3>4, <3>5 DEF IInv, SavedIsStored, editing
  <2>3. CASE UNCHANGED <<files, edit>>
    BY <1>1, <2>1, <2>3 DEF IInv, TypeOK, CursorInView, SavedIsStored, editing,
                            Stored, ram_file_find, Matches
  <2>. QED BY <1>6, <2>2, <2>3 DEF F7
<1>7. ASSUME Return, files' \in Seq(File), Len(files') <= EDIT_FILE_MAX
      PROVE  IInv'
  <2>1. name' = NoName /\ edit' = NoEdit /\ top' = 0 /\ coloff' = 0
    BY <1>7 DEF Return
  <2>2. TypeOK'
    BY <1>7, <2>1, NoEditFacts DEF TypeOK
  <2>3. CursorInView'
    BY <2>1, SizesAssumption DEF CursorInView, NoEdit
  <2>. QED BY <2>1, <2>2, <2>3 DEF IInv, SavedIsStored, editing
<1>8. CASE F8
  BY <1>1, <1>5, <1>7, <1>8 DEF F8
<1>9. CASE Discard
  BY <1>1, <1>7, <1>9 DEF Discard
<1>10. CASE UNCHANGED vars
  BY <1>1, <1>10 DEF vars, IInv, TypeOK, CursorInView, SavedIsStored, editing,
                     Stored, ram_file_find, Matches
<1>. QED BY <1>2, <1>3, <1>4, <1>6, <1>8, <1>9, <1>10 DEF Next

LEMMA Inductive == Spec => []IInv
  BY InitIInv, NextIInv, PTL DEF Spec

\* For every number and size of files, lines and views: the files and the
\* buffer stay in their arrays and the cursor on the text (src/shell.c:956-961).
THEOREM TypeCorrect == Spec => []TypeOK
<1>1. IInv => TypeOK
  BY DEF IInv
<1>. QED BY Inductive, <1>1, PTL

\* For every size of the view the cursor is in it whenever the editor waits
\* for a key (src/shell.c:807-815).
THEOREM CursorInViewAlways == Spec => []CursorInView
<1>1. IInv => CursorInView
  BY DEF IInv
<1>. QED BY Inductive, <1>1, PTL

\* Whatever names are cut to, "saved" in the title is true, also when the
\* storage is full (src/shell.c:829, 864-874).
THEOREM SavedIsStoredAlways == Spec => []SavedIsStored
<1>1. IInv => SavedIsStored
  BY DEF IInv
<1>. QED BY Inductive, <1>1, PTL
-----------------------------------------------------------------------------
(* The table as a function from names to strings.                          *)

NamesIn(fs) == {fs[i].name : i \in DOMAIN fs}
FindIn(fs, n) == CHOOSE i \in {i \in DOMAIN fs : fs[i].name = n} :
                   \A j \in {j \in DOMAIN fs : fs[j].name = n} : i <= j
StoredIn(fs) == [n \in NamesIn(fs) |-> FT!Flat(fs[FindIn(fs, n)].text)]

\* No two files of the table have the same name.
Distinct(fs) == \A i, j \in DOMAIN fs : fs[i].name = fs[j].name => i = j

\* The function with the page p for n, whether n had one or not.
WithPage(s, n, p) == [m \in DOMAIN s \cup {n} |-> IF m = n THEN p ELSE s[m]]

\* The function is known from the files one by one.
LEMMA StoredIs ==
  ASSUME NEW fs \in Seq(File), Distinct(fs),
         NEW h, h = [n \in NamesIn(fs) |-> h[n]],
         \A i \in 1..Len(fs) : h[fs[i].name] = FT!Flat(fs[i].text)
  PROVE  StoredIn(fs) = h
<1>1. DOMAIN fs = 1..Len(fs) /\ Len(fs) \in Nat
  BY LenProperties
<1>2. ASSUME NEW n \in NamesIn(fs)
      PROVE  FT!Flat(fs[FindIn(fs, n)].text) = h[n]
  <2>1. PICK i \in 1..Len(fs) : fs[i].name = n
    BY <1>1, <1>2 DEF NamesIn
  <2>2. {j \in DOMAIN fs : fs[j].name = n} = {i}
    BY <1>1, <2>1 DEF Distinct
  <2>3. FindIn(fs, n) = i
    BY <1>1, <2>2 DEF FindIn
  <2>. QED BY <2>1, <2>3
<1>. QED BY <1>2 DEF StoredIn

LEMMA StoredFacts ==
  ASSUME NEW fs \in Seq(File), Distinct(fs)
  PROVE  /\ DOMAIN StoredIn(fs) = NamesIn(fs)
         /\ \A i \in 1..Len(fs) : /\ fs[i].name \in NamesIn(fs)
                                 /\ StoredIn(fs)[fs[i].name] = FT!Flat(fs[i].text)
<1>1. DOMAIN fs = 1..Len(fs) /\ Len(fs) \in Nat
  BY LenProperties
<1>2. ASSUME NEW i \in 1..Len(fs)
      PROVE  /\ fs[i].name \in NamesIn(fs)
             /\ StoredIn(fs)[fs[i].name] = FT!Flat(fs[i].text)
  <2>. DEFINE n == fs[i].name
  <2>1. n \in NamesIn(fs)
    BY <1>1 DEF NamesIn
  <2>2. {j \in DOMAIN fs : fs[j].name = n} = {i}
    BY <1>1 DEF Distinct
  <2>. HIDE DEF n
  <2>3. FindIn(fs, n) = i
    BY <1>1, <2>2 DEF FindIn
  <2>4. StoredIn(fs)[n] = FT!Flat(fs[i].text)
    BY <2>1, <2>3 DEF StoredIn
  <2>. QED BY <2>1, <2>4 DEF n
<1>. QED BY <1>2 DEF StoredIn

\* There are no more names than files.
LEMMA NamesCounted ==
  ASSUME NEW fs \in Seq(File)
  PROVE  Cardinality(NamesIn(fs)) <= Len(fs) /\ Cardinality(NamesIn(fs)) \in Nat
<1>. DEFINE f == [i \in 1..Len(fs) |-> fs[i].name]
<1>1. DOMAIN fs = 1..Len(fs) /\ Len(fs) \in Nat
  BY LenProperties
<1>2. f \in Surjection(1..Len(fs), NamesIn(fs))
  BY <1>1 DEF Surjection, NamesIn
<1>. HIDE DEF f
<1>3. IsFiniteSet(1..Len(fs)) /\ Cardinality(1..Len(fs)) = Len(fs)
  BY <1>1, FS_Interval
<1>4. IsFiniteSet(NamesIn(fs)) /\ Cardinality(NamesIn(fs)) <= Len(fs)
  BY <1>2, <1>3, FS_Surjection
<1>. QED BY <1>4, FS_CardinalityType

\* A file put in the place of the one of its name.
LEMMA FileReplaced ==
  ASSUME NEW fs \in Seq(File), Distinct(fs), NEW k \in 1..Len(fs), NEW n \in Names,
         fs[k].name = n, NEW f \in File, f.name = n,
         NEW gs \in Seq(File), Len(gs) = Len(fs), gs[k] = f,
         \A i \in 1..Len(fs) : i # k => gs[i] = fs[i]
  PROVE  /\ Distinct(gs)
         /\ StoredIn(gs) = WithPage(StoredIn(fs), n, FT!Flat(f.text))
<1>. DEFINE h == [m \in NamesIn(fs) \cup {n} |->
                    IF m = n THEN FT!Flat(f.text) ELSE StoredIn(fs)[m]]
<1>1. DOMAIN fs = 1..Len(fs) /\ Len(fs) \in Nat
  BY LenProperties
<1>2. \A i \in 1..Len(fs) : gs[i] = IF i = k THEN f ELSE fs[i]
  OBVIOUS
<1>3. DOMAIN gs = 1..Len(fs)
  BY <1>2, LenProperties
<1>4. \A i \in 1..Len(fs) : gs[i].name = fs[i].name
  BY <1>2
<1>5. Distinct(gs)
  BY <1>1, <1>3, <1>4 DEF Distinct
<1>6. NamesIn(gs) = NamesIn(fs) /\ n \in NamesIn(fs)
  BY <1>1, <1>3, <1>4 DEF NamesIn
<1>7. \A i \in 1..Len(gs) : h[gs[i].name] = FT!Flat(gs[i].text)
  <2>. TAKE i \in 1..Len(gs)
  <2>1. i \in 1..Len(fs) /\ fs[i].name \in NamesIn(fs)
        /\ StoredIn(fs)[fs[i].name] = FT!Flat(fs[i].text)
    BY <1>2, StoredFacts
  <2>2. CASE i = k
    BY <1>2, <2>1, <2>2
  <2>3. CASE i # k
    <3>1. fs[i].name # n
      BY <1>1, <2>1, <2>3 DEF Distinct
    <3>. QED BY <1>2, <2>1, <2>3, <3>1
  <2>. QED BY <2>2, <2>3
<1>8. h = [m \in NamesIn(gs) |-> h[m]]
  BY <1>6
<1>. HIDE DEF h
<1>9. StoredIn(gs) = h
  BY <1>5, <1>7, <1>8, StoredIs
<1>10. h = WithPage(StoredIn(fs), n, FT!Flat(f.text))
  BY StoredFacts DEF h, WithPage
<1>. QED BY <1>5, <1>9, <1>10

\* A file of a new name put behind the others.
LEMMA FileAppended ==
  ASSUME NEW fs \in Seq(File), Distinct(fs), NEW n \in Names, n \notin NamesIn(fs),
         NEW lines \in Text
  PROVE  LET gs == Append(fs, [name |-> n, text |-> lines]) IN
         /\ gs \in Seq(File) /\ Distinct(gs) /\ NamesIn(gs) = NamesIn(fs) \cup {n}
         /\ StoredIn(gs) = WithPage(StoredIn(fs), n, FT!Flat(lines))
<1>. DEFINE gs == Append(fs, [name |-> n, text |-> lines])
            f == [name |-> n, text |-> lines]
            h == [m \in NamesIn(fs) \cup {n} |->
                    IF m = n THEN FT!Flat(lines) ELSE StoredIn(fs)[m]]
<1>1. DOMAIN fs = 1..Len(fs) /\ Len(fs) \in Nat
  BY LenProperties
<1>2. f \in File /\ f.name = n /\ f.text = lines
  BY DEF File
<1>3. gs = Append(fs, f)
  OBVIOUS
<1>. HIDE DEF f, gs
<1>4. /\ gs \in Seq(File) /\ Len(gs) = Len(fs) + 1
      /\ \A i \in 1..Len(fs) : gs[i] = fs[i]
      /\ gs[Len(fs) + 1] = f
  BY <1>2, <1>3, AppendProperties
<1>5. DOMAIN gs = 1..Len(fs) + 1 /\ \A i \in 1..Len(gs) : i \in 1..Len(fs) \/ i = Len(fs) + 1
  BY <1>1, <1>4, LenProperties
<1>6. \A i \in 1..Len(fs) : fs[i].name # n /\ fs[i].name \in NamesIn(fs)
  BY <1>1 DEF NamesIn
<1>7. Distinct(gs)
  <2>. SUFFICES ASSUME NEW i \in 1..Len(gs), NEW j \in 1..Len(gs), gs[i].name = gs[j].name
                PROVE  i = j
    BY <1>4, <1>5 DEF Distinct
  <2>1. CASE i \in 1..Len(fs) /\ j \in 1..Len(fs)
    BY <1>1, <1>4, <2>1 DEF Distinct
  <2>. QED BY <1>2, <1>4, <1>5, <1>6, <2>1
<1>8. NamesIn(gs) = NamesIn(fs) \cup {n}
  <2>1. ASSUME NEW m \in NamesIn(gs)
        PROVE  m \in NamesIn(fs) \cup {n}
    BY <1>2, <1>4, <1>5, <1>6, <2>1 DEF NamesIn
  <2>2. ASSUME NEW m \in NamesIn(fs)
        PROVE  m \in NamesIn(gs)
    <3>1. PICK i \in 1..Len(fs) : fs[i].name = m
      BY <1>1 DEF NamesIn
    <3>2. i \in DOMAIN gs /\ gs[i].name = m
      BY <1>1, <1>4, <1>5, <3>1
    <3>. QED BY <3>2 DEF NamesIn
  <2>3. n \in NamesIn(gs)
    <3>1. Len(fs) + 1 \in DOMAIN gs /\ gs[Len(fs) + 1].name = n
      BY <1>1, <1>2, <1>4, <1>5
    <3>. QED BY <3>1 DEF NamesIn
  <2>. QED BY <2>1, <2>2, <2>3
<1>9. \A i \in 1..Len(gs) : h[gs[i].name] = FT!Flat(gs[i].text)
  <2>. TAKE i \in 1..Len(gs)
  <2>1. CASE i \in 1..Len(fs)
    <3>1. StoredIn(fs)[fs[i].name] = FT!Flat(fs[i].text)
      BY <2>1, StoredFacts
    <3>. QED BY <1>4, <1>6, <2>1, <3>1
  <2>2. CASE i = Len(fs) + 1
    BY <1>2, <1>4, <2>2
  <2>. QED BY <1>5, <2>1, <2>2
<1>10. h = [m \in NamesIn(gs) |-> h[m]]
  BY <1>8
<1>. HIDE DEF h
<1>11. StoredIn(gs) = h
  <2>1. gs \in Seq(File)
    BY <1>4
  <2>. QED BY <1>7, <1>9, <1>10, <2>1, StoredIs
<1>12. h = WithPage(StoredIn(fs), n, FT!Flat(lines))
  BY StoredFacts DEF h, WithPage
<1>. QED BY <1>4, <1>7, <1>8, <1>11, <1>12 DEF gs

\* A file taken out.
LEMMA FileDeleted ==
  ASSUME NEW fs \in Seq(File), Distinct(fs), NEW k \in 1..Len(fs),
         NEW gs, gs = Without(fs, k - 1)
  PROVE  /\ gs \in Seq(File) /\ Distinct(gs)
         /\ StoredIn(gs) = [m \in NamesIn(fs) \ {fs[k].name} |-> StoredIn(fs)[m]]
<1>. DEFINE n == fs[k].name
            h == [m \in NamesIn(fs) \ {n} |-> StoredIn(fs)[m]]
            p == k - 1
<1>1. DOMAIN fs = 1..Len(fs) /\ Len(fs) \in Nat
  BY LenProperties
<1>2. p \in 0..Len(fs) - 1 /\ p + 1 = k /\ p \in Nat
  BY <1>1
<1>. HIDE DEF p
<1>3. /\ gs \in Seq(File) /\ Len(gs) = Len(fs) - 1
      /\ \A i \in 1..p : gs[i] = fs[i]
      /\ \A i \in p + 1..Len(fs) - 1 : gs[i] = fs[i + 1]
  <2>1. gs = Without(fs, p)
    BY DEF p
  <2>2. /\ Without(fs, p) \in Seq(File) /\ Len(Without(fs, p)) = Len(fs) - 1
        /\ \A i \in 1..p : Without(fs, p)[i] = fs[i]
        /\ \A i \in p + 1..Len(fs) - 1 : Without(fs, p)[i] = fs[i + 1]
    BY <1>2, Dropped
  <2>. QED BY <2>1, <2>2, Zenon
<1>4. DOMAIN gs = 1..Len(fs) - 1
  BY <1>3, LenProperties
\* Where the element that is now at i was before.
<1>. DEFINE old(i) == IF i <= p THEN i ELSE i + 1
<1>5. \A i \in 1..Len(fs) - 1 : /\ old(i) \in 1..Len(fs) /\ old(i) # k /\ gs[i] = fs[old(i)]
  BY <1>1, <1>2, <1>3
<1>6. /\ \A i, j \in 1..Len(fs) - 1 : old(i) = old(j) => i = j
      /\ \A m \in 1..Len(fs) : m # k => \E i \in 1..Len(fs) - 1 : old(i) = m
  <2>1. \A i, j \in 1..Len(fs) - 1 : old(i) = old(j) => i = j
    BY <1>1, <1>2
  <2>2. ASSUME NEW m \in 1..Len(fs), m # k
        PROVE  \E i \in 1..Len(fs) - 1 : old(i) = m
    <3>1. CASE m <= p
      <4>1. m \in 1..Len(fs) - 1 /\ old(m) = m
        BY <1>1, <1>2, <3>1
      <4>. QED BY <4>1
    <3>2. CASE ~(m <= p)
      <4>1. m - 1 \in 1..Len(fs) - 1 /\ old(m - 1) = m
        BY <1>1, <1>2, <2>2, <3>2
      <4>. QED BY <4>1
    <3>. QED BY <3>1, <3>2
  <2>. QED BY <2>1, <2>2
<1>. HIDE DEF old
<1>7. Distinct(gs)
  <2>. SUFFICES ASSUME NEW i \in 1..Len(fs) - 1, NEW j \in 1..Len(fs) - 1,
                       gs[i].name = gs[j].name
                PROVE  i = j
    BY <1>4 DEF Distinct
  <2>1. /\ old(i) \in 1..Len(fs) /\ gs[i] = fs[old(i)]
        /\ old(j) \in 1..Len(fs) /\ gs[j] = fs[old(j)]
    BY <1>5
  <2>2. old(i) = old(j)
    BY <1>1, <2>1 DEF Distinct
  <2>. QED BY <1>6, <2>2
<1>8. NamesIn(gs) = NamesIn(fs) \ {n}
  <2>1. ASSUME NEW m \in NamesIn(gs)
        PROVE  m \in NamesIn(fs) \ {n}
    <3>1. PICK i \in 1..Len(fs) - 1 : gs[i].name = m
      BY <1>4 DEF NamesIn
    <3>2. old(i) \in 1..Len(fs) /\ old(i) # k /\ fs[old(i)].name = m
      BY <1>5, <3>1
    <3>. QED BY <1>1, <3>2 DEF NamesIn, Distinct
  <2>2. ASSUME NEW m \in NamesIn(fs), m # n
        PROVE  m \in NamesIn(gs)
    <3>1. PICK j \in 1..Len(fs) : fs[j].name = m
      BY <1>1 DEF NamesIn
    <3>2. j # k
      BY <2>2, <3>1
    <3>3. PICK i \in 1..Len(fs) - 1 : old(i) = j
      BY <1>6, <3>2
    <3>4. i \in DOMAIN gs /\ gs[i].name = m
      BY <1>4, <1>5, <3>1, <3>3
    <3>. QED BY <3>4 DEF NamesIn
  <2>. QED BY <2>1, <2>2
<1>. HIDE DEF n
<1>9. \A i \in 1..Len(gs) : h[gs[i].name] = FT!Flat(gs[i].text)
  <2>. TAKE i \in 1..Len(gs)
  <2>1. old(i) \in 1..Len(fs) /\ gs[i] = fs[old(i)] /\ i \in DOMAIN gs
    BY <1>3, <1>4, <1>5
  <2>2. StoredIn(fs)[fs[old(i)].name] = FT!Flat(fs[old(i)].text)
    BY <2>1, StoredFacts
  <2>3. gs[i].name \in NamesIn(fs) \ {n}
    <3>1. gs[i].name \in NamesIn(gs)
      BY <2>1 DEF NamesIn
    <3>. QED BY <1>8, <3>1
  <2>. QED BY <2>1, <2>2, <2>3
<1>10. h = [m \in NamesIn(gs) |-> h[m]]
  BY <1>8
<1>. HIDE DEF h
<1>11. StoredIn(gs) = h
  BY <1>3, <1>7, <1>9, <1>10, StoredIs
<1>. QED BY <1>3, <1>7, <1>11 DEF h, n
-----------------------------------------------------------------------------
(* Table and buffer are a note pad.                                        *)

\* What the shell shows of the state.
Stash == [n \in FileNames |-> FT!Flat(files[ram_file_find(n)].text)]
Page == IF editing THEN FT!Flat(edit.text) ELSE NoName

LEMMA StashIs ==
  /\ Stash = StoredIn(files) /\ FileNames = NamesIn(files)
  /\ Stash' = StoredIn(files')
BY DEF Stash, StoredIn, FileNames, NamesIn, ram_file_find, FindIn, Matches

LEMMA StashFacts ==
  ASSUME TypeOK, Distinct(files)
  PROVE  DOMAIN Stash = NamesIn(files)
BY StashIs, StoredFacts DEF TypeOK

LEMMA StoredNamed ==
  ASSUME NEW n
  PROVE  Stored(n) <=> n \in NamesIn(files)
BY DEF Stored, Matches, NamesIn

\* A page is never taken for no page.
LEMMA PageShown ==
  ASSUME TypeOK
  PROVE  editing => Page # NoName /\ Page = FT!Flat(edit.text)
<1>1. edit.text \in Text
  BY DEF TypeOK, Edit
<1>2. FT!Flat(edit.text) \in Seq(Letters)
  BY <1>1, FlatIsString
<1>. QED BY <1>2, NamesAssumption DEF Page, Letters

LEMMA SameFunction ==
  ASSUME NEW s, NEW t, FT!OneCharacter(s, t)
  PROVE  NP!OneCharacter(s, t)
BY DEF FT!OneCharacter, NP!OneCharacter, FT!OneLess, NP!OneLess, FT!RemoveAt, NP!RemoveAt

\* What is saved is put under the title, and there was room for it.
LEMMA SaveStep ==
  ASSUME IInv, Distinct(files), editing, CanSave(name), editor_save(name, edit.text)
  PROVE  Distinct(files)' /\ NP!Room /\ NP!Put
<1>1. /\ TypeOK /\ name \in Names /\ Cut[name] = name /\ edit.text \in Text
      /\ files \in Seq(File) /\ Len(files) \in Nat /\ DOMAIN files = 1..Len(files)
  BY LenProperties DEF IInv, TypeOK, Edit, editing
<1>2. /\ Distinct(files')
      /\ StoredIn(files') = WithPage(StoredIn(files), name, FT!Flat(edit.text))
  <2>1. CASE Stored(name)
    <3>. DEFINE k == ram_file_find(name)
    <3>1. k \in 1..Len(files) /\ files[k].name = name
      BY <1>1, <2>1, Found DEF Matches
    <3>2. files' = [files EXCEPT ![k].text = edit.text] /\ files[k] \in File
      BY <1>1, <2>1, Found DEF editor_save
    <3>. HIDE DEF k
    <3>. DEFINE f == [name |-> name, text |-> edit.text]
    <3>3. [files[k] EXCEPT !.text = edit.text] = f
      BY <3>1, <3>2 DEF File
    <3>4. files' = [files EXCEPT ![k] = f]
      BY <3>2, <3>3
    <3>5. f \in File /\ f.name = name /\ f.text = edit.text
      BY <1>1 DEF File
    <3>. HIDE DEF f
    <3>6. /\ files' \in Seq(File) /\ Len(files') = Len(files) /\ files'[k] = f
          /\ \A i \in 1..Len(files) : i # k => files'[i] = files[i]
      BY <1>1, <3>1, <3>4, <3>5, ExceptSeq
    <3>7. /\ Distinct(files')
          /\ StoredIn(files') = WithPage(StoredIn(files), name, FT!Flat(f.text))
      BY <1>1, <3>1, <3>5, <3>6, FileReplaced
    <3>. QED BY <3>5, <3>7
  <2>2. CASE ~Stored(name)
    <3>1. name \notin NamesIn(files)
      BY <2>2, StoredNamed
    <3>2. files' = Append(files, [name |-> name, text |-> edit.text])
      BY <1>1, <2>2 DEF editor_save
    <3>3. LET gs == Append(files, [name |-> name, text |-> edit.text]) IN
          /\ Distinct(gs)
          /\ StoredIn(gs) = WithPage(StoredIn(files), name, FT!Flat(edit.text))
      BY <1>1, <3>1, FileAppended
    <3>. QED BY <3>2, <3>3
  <2>. QED BY <2>1, <2>2
<1>3. Stash' = [m \in DOMAIN Stash \cup {name} |-> IF m = name THEN Page ELSE Stash[m]]
  BY <1>1, <1>2, StashIs, PageShown DEF WithPage
<1>4. NP!Put
  BY <1>3 DEF NP!Put, Stash, Page
<1>5. name \in DOMAIN Stash \/ Cardinality(DOMAIN Stash) < EDIT_FILE_MAX
  <2>1. CASE Stored(name)
    BY <1>1, <2>1, StashFacts, StoredNamed
  <2>2. CASE ~Stored(name)
    <3>1. Len(files) < EDIT_FILE_MAX
      BY <2>2 DEF CanSave
    <3>2. Cardinality(NamesIn(files)) <= Len(files) /\ Cardinality(NamesIn(files)) \in Nat
      BY <1>1, NamesCounted
    <3>3. Cardinality(NamesIn(files)) < EDIT_FILE_MAX
      BY <1>1, <3>1, <3>2, SizesAssumption
    <3>. QED BY <1>1, <3>3, StashFacts
  <2>. QED BY <2>1, <2>2
<1>6. NP!Room
  BY <1>5 DEF NP!Room, Stash, NP!Cardinality, Cardinality
<1>. QED BY <1>2, <1>4, <1>6

LEMMA EditStep ==
  ASSUME IInv, Distinct(files), NEW args \in Names, cmd_edit(args)
  PROVE  Distinct(files)' /\ \E n \in Names : NP!Open(n)
<1>. DEFINE n == EditName(args)
<1>1. n \in Names /\ n # NoName
  BY NamesAssumption DEF EditName
<1>. HIDE DEF n
<1>2. /\ ~editing /\ name' = n /\ files' = files
      /\ edit'.text = IF Stored(n) THEN files[ram_file_find(n)].text ELSE EmptyText
  BY DEF cmd_edit, n, NoEdit
<1>3. Page = NoName /\ Page' = FT!Flat(edit'.text)
  BY <1>1, <1>2 DEF Page, editing
<1>4. TypeOK
  BY DEF IInv
<1>5. Page' = IF n \in DOMAIN Stash THEN Stash[n] ELSE << >>
  <2>1. CASE Stored(n)
    BY <1>2, <1>3, <1>4, <2>1, StashFacts, StashIs, StoredNamed DEF Stash
  <2>2. CASE ~Stored(n)
    BY <1>2, <1>3, <1>4, <2>2, StashFacts, StoredNamed, EmptyFlat
  <2>. QED BY <2>1, <2>2
<1>6. Stash' = Stash
  BY <1>2, StashIs
<1>7. NP!Open(n)
  BY <1>2, <1>3, <1>5, <1>6 DEF NP!Open, Stash, Page
<1>. QED BY <1>1, <1>2, <1>7

LEMMA RmStep ==
  ASSUME IInv, Distinct(files), NEW args \in Names, cmd_rm(args)
  PROVE  Distinct(files)' /\ NP!Erase(args)
<1>. DEFINE k == ram_file_find(args)
<1>1. TypeOK /\ files \in Seq(File) /\ Len(files) \in Nat /\ ~editing /\ Stored(args)
  BY LenProperties DEF IInv, TypeOK, cmd_rm
<1>2. k \in 1..Len(files) /\ files[k].name = args
  BY <1>1, Found DEF Matches
<1>3. /\ files' = SubSeq(files, 1, k - 1) \o SubSeq(files, k + 1, Len(files))
      /\ UNCHANGED <<name, edit>>
  BY DEF cmd_rm, ram_file_delete_index
<1>. HIDE DEF k
<1>4. k - 1 + 2 = k + 1
  BY <1>2
<1>5. files' = Without(files, k - 1)
  BY <1>3, <1>4 DEF Without
<1>6. /\ Distinct(files')
      /\ StoredIn(files') = [m \in NamesIn(files) \ {files[k].name} |-> StoredIn(files)[m]]
  BY <1>1, <1>2, <1>5, FileDeleted
<1>7. Stash' = [m \in DOMAIN Stash \ {args} |-> Stash[m]]
  BY <1>1, <1>2, <1>6, StashIs, StashFacts
<1>8. args \in DOMAIN Stash
  BY <1>1, StashFacts, StoredNamed
<1>9. Page = NoName /\ Page' = Page /\ name' = name
  BY <1>1, <1>3 DEF Page, editing
<1>10. NP!Erase(args)
  BY <1>7, <1>8, <1>9 DEF NP!Erase, Stash, Page
<1>. QED BY <1>6, <1>10

LEMMA KeyStep ==
  ASSUME IInv, Distinct(files), NEW key \in Chars \cup MoveKeys \cup EditKeys, Key(key)
  PROVE  /\ Distinct(files)' /\ Stash' = Stash /\ name' = name
         /\ NP!Strike \/ Page' = Page
<1>. DEFINE a == Struck(edit, key)
<1>1. TypeOK /\ edit \in Edit /\ OnText(edit) /\ edit.text \in Text /\ editing
  BY DEF IInv, TypeOK, Edit, Key
<1>2. a.text = edit.text \/ FT!OneCharacter(FT!Flat(edit.text), FT!Flat(a.text))
  <2>1. CASE Refused(edit, key)
    BY <2>1 DEF Struck
  <2>2. CASE ~Refused(edit, key)
    <3>1. a = AfterKey(edit, key)
      BY <2>2 DEF Struck
    <3>2. LET t == AfterKey(edit, key).text
          IN  t = edit.text \/ FT!OneCharacter(FT!Flat(edit.text), FT!Flat(t))
      BY <1>1, KeyChangesOneCharacter
    <3>. QED BY <3>1, <3>2
  <2>. QED BY <2>1, <2>2
<1>3. a \in Edit
  BY <1>1, StruckFacts
<1>4. edit' = Clamp(a) /\ files' = files /\ name' = name
  BY DEF Key, Struck
<1>. HIDE DEF a
<1>5. edit'.text = a.text
  BY <1>3, <1>4, Clamped
<1>6. a.text \in Text
  BY <1>3 DEF Edit
<1>7. /\ Page = FT!Flat(edit.text) /\ Page # NoName
      /\ Page' = FT!Flat(a.text) /\ Page' # NoName
  <2>1. FT!Flat(a.text) \in Seq(Letters)
    BY <1>6, FlatIsString
  <2>2. FT!Flat(a.text) # NoName
    BY <2>1, NamesAssumption DEF Letters
  <2>3. Page' = FT!Flat(edit'.text)
    BY <1>1, <1>4 DEF Page, editing
  <2>. QED BY <1>1, <1>5, <2>2, <2>3, PageShown
<1>8. Stash' = Stash
  BY <1>4, StashIs
<1>9. CASE a.text = edit.text
  BY <1>4, <1>7, <1>8, <1>9
<1>10. CASE FT!OneCharacter(FT!Flat(edit.text), FT!Flat(a.text))
  <2>1. NP!OneCharacter(Page, Page')
    BY <1>7, <1>10, SameFunction
  <2>2. NP!Strike
    BY <1>4, <1>7, <1>8, <2>1 DEF NP!Strike, Stash, Page
  <2>. QED BY <1>4, <1>8, <2>2
<1>. QED BY <1>2, <1>9, <1>10

LEMMA CloseStep ==
  ASSUME Return
  PROVE  NP!Close
<1>1. name' = NoName /\ Page' = NoName
  BY DEF Return, Page, editing
<1>. QED BY <1>1 DEF NP!Close, Page

\* A step of the editor, and what it is on the note pad.
LEMMA NotePadStep ==
  ASSUME IInv, Distinct(files), [Next]_vars
  PROVE  /\ Distinct(files)'
         /\ NP!Next \/ (Stash' = Stash /\ name' = name /\ Page' = Page)
<1>1. TypeOK
  BY DEF IInv
<1>2. ASSUME NEW args \in Names, cmd_edit(args)
      PROVE  Distinct(files)' /\ NP!Next
  BY <1>2, EditStep DEF NP!Next
<1>3. ASSUME NEW args \in Names, cmd_rm(args)
      PROVE  Distinct(files)' /\ NP!Next
  BY <1>3, RmStep DEF NP!Next
<1>4. ASSUME NEW key \in Chars \cup MoveKeys \cup EditKeys, Key(key)
      PROVE  /\ Distinct(files)'
             /\ NP!Next \/ (Stash' = Stash /\ name' = name /\ Page' = Page)
  BY <1>4, KeyStep DEF NP!Next
<1>5. ASSUME editing
      PROVE  Page # NoName
  BY <1>1, <1>5, PageShown
<1>6. files' = files => Stash' = Stash /\ Distinct(files)'
  BY StashIs
<1>7. CASE F7
  <2>1. CASE CanSave(name) /\ editor_save(name, edit.text) /\ edit' = [edit EXCEPT !.dirty = FALSE]
    <3>1. editing /\ name' = name
      BY <1>7 DEF F7
    <3>2. Distinct(files)' /\ NP!Room /\ NP!Put
      BY <2>1, <3>1, SaveStep
    <3>3. edit'.text = edit.text
      BY <1>1, <2>1 DEF TypeOK, Edit
    <3>4. Page' = Page
      BY <3>1, <3>3 DEF Page, editing
    <3>5. Page # NoName
      BY <1>5, <3>1
    <3>6. NP!Save
      BY <3>1, <3>2, <3>4, <3>5 DEF NP!Save, Page
    <3>. QED BY <3>2, <3>6 DEF NP!Next
  <2>2. CASE UNCHANGED <<files, edit>>
    <3>1. name' = name /\ Page' = Page
      BY <1>7, <2>2 DEF F7, Page, editing
    <3>. QED BY <1>6, <2>2, <3>1
  <2>. QED BY <1>7, <2>1, <2>2 DEF F7
<1>8. CASE F8
  <2>1. editing /\ NP!Close /\ Page # NoName
    BY <1>5, <1>8, CloseStep DEF F8
  <2>2. CASE CanSave(name) /\ editor_save(name, edit.text)
    <3>1. Distinct(files)' /\ NP!Room /\ NP!Put
      BY <2>1, <2>2, SaveStep
    <3>2. NP!SaveAndClose
      BY <2>1, <3>1 DEF NP!SaveAndClose, Page
    <3>. QED BY <3>1, <3>2 DEF NP!Next
  <2>3. CASE UNCHANGED files
    <3>1. NP!Discard
      BY <1>6, <2>1, <2>3 DEF NP!Discard, Page, Stash
    <3>. QED BY <1>6, <2>3, <3>1 DEF NP!Next
  <2>. QED BY <1>8, <2>2, <2>3 DEF F8
<1>9. CASE Discard
  <2>1. editing /\ NP!Close /\ Page # NoName /\ files' = files
    BY <1>5, <1>9, CloseStep DEF Discard
  <2>2. NP!Discard
    BY <1>6, <2>1 DEF NP!Discard, Page, Stash
  <2>. QED BY <1>6, <2>1, <2>2 DEF NP!Next
<1>10. CASE UNCHANGED vars
  <2>1. files' = files /\ name' = name /\ Page' = Page
    BY <1>10 DEF vars, Page, editing
  <2>. QED BY <1>6, <2>1
<1>. QED BY <1>2, <1>3, <1>4, <1>7, <1>8, <1>9, <1>10 DEF Next

\* Whatever the limits, the size of the view and the cut of the names, the
\* editor is a note pad: keys change one character of the page, and only F7
\* and F8 bring it into the stored files (src/shell.c:829-880, 956-1080).
THEOREM NotePadImplemented == Spec => RefinesNotePad
<1>1. Init => Distinct(files) /\ NP!Init
  <2>. SUFFICES ASSUME Init PROVE Distinct(files) /\ NP!Init
    OBVIOUS
  <2>1. files = << >> /\ name = NoName /\ ~editing
    BY DEF Init, editing
  <2>2. DOMAIN files = {} /\ Distinct(files)
    BY <2>1 DEF Distinct
  <2>3. NamesIn(files) = {}
    BY <2>2 DEF NamesIn
  <2>4. StoredIn(files) = << >>
    <3>. DEFINE h == StoredIn(files)
    <3>1. h = [i \in {} |-> i]
      BY <2>3 DEF StoredIn
    <3>. HIDE DEF h
    <3>. QED BY <3>1 DEF h
  <2>5. Stash = << >> /\ Page = NoName
    BY <2>1, <2>4, StashIs DEF Page
  <2>. QED BY <2>1, <2>2, <2>5 DEF NP!Init, Stash, Page
<1>2. IInv /\ Distinct(files) /\ [Next]_vars =>
        Distinct(files)' /\ [NP!Next]_<<Stash, name, Page>>
  BY NotePadStep
<1>. QED BY <1>1, <1>2, Inductive, PTL DEF Spec, RefinesNotePad, NP!Spec, NP!vars, Stash, Page
=============================================================================
