------------------------------- MODULE FontCache -------------------------------
(***************************************************************************)
(* The fonts of a text renderer (terra/tr_font.t): two caches that own the *)
(* font objects, one for font files in memory, limited by size, and one    *)
(* for memory-mapped files, limited by count, and the spans of layouts,    *)
(* which keep a pointer to the font they have taken a reference to.        *)
(* val is what the links of a cache hold as their pair's value.  A link    *)
(* that was removed keeps its value until it is given out again, and the   *)
(* object it points to was freed when it was removed: the objects that     *)
(* exist are the values of the links that are in a list.                   *)
(* MaxAsked bounds the references taken through Renderer:font_face_num().  *)
(* Definitions marked "variant" are mistakes the code could have made; no  *)
(* definition uses them.                                                   *)
(***************************************************************************)
EXTENDS CachePairs, FiniteSetsExt

Unset == -1                                 \* the "font not set" id

CONSTANTS
    Ids,        \* the font ids that the application knows
    Mmapped,    \* those whose files it maps, and
    Missing,    \* those whose files it fails to load
    FileSize,
    Objects,    \* addresses of font objects
    Spans,
    MemLimits, MmappedLimits, MaxAsked,
    Nil

ASSUME FontsAssumption == Mmapped \subseteq Ids /\ Missing \subseteq Ids /\ Unset \notin Ids
ASSUME SpansAssumption == IsFiniteSet(Spans)
ASSUME FileSizeAssumption == FileSize \in [Ids -> Nat \ {0}]
ASSUME FontLimitsAssumption == MemLimits \subseteq Nat /\ MmappedLimits \subseteq Nat
ASSUME EnoughObjects == Cardinality(Ids \ Missing) <= Cardinality(Objects)

VARIABLES
    fonts,      \* the caches mem_fonts and mmapped_fonts
    spans,      \* the font_id and font of each span
    asked,      \* ghost: the references that font_face_num() took
    state       \* of the renderer: "running", "freed" or "failed"

fontVars == <<fonts, spans, asked, state>>

Unlimited == 2147483647                    \* the largest int
Caches == {"mem", "mmapped"}
NoSpan == [font_id |-> Unset, font |-> Nil]
-------------------------------------------------------------------------------
Has(F, c, id) == IndexOf(F[c].cache, id) # NoLink

Loaded(F, id) == Has(F, "mem", id) \/ Has(F, "mmapped", id)
CacheOf(F, id) == IF Has(F, "mem", id) THEN "mem" ELSE "mmapped"

\* the object that the pair of id owns, and all that exist
FontOf(F, id) == F[CacheOf(F, id)].val[IndexOf(F[CacheOf(F, id)].cache, id)]
Owned(F, c) == {F[c].val[i] : i \in F[c].cache.indices}
Existing(F) == UNION {Owned(F, c) : c \in Caches}

\* all of shrink(), which evicts at most what there is
shrink(C, size, count) ==
    LET after[n \in Nat] ==
            IF n = 0 THEN C
            ELSE IF Overfull(after[n - 1], size, count) /\ MayEvict(after[n - 1])
                 THEN evict(after[n - 1])
                 ELSE after[n - 1]
    IN  after[C.count]

\* Renderer:font(id): a reference to a loaded font, or a new object a for it
refer(F, id) ==
    [F EXCEPT ![CacheOf(F, id)].cache = get(@, IndexOf(@, id))]
load(F, id, a) ==
    LET c == IF id \in Mmapped THEN "mmapped" ELSE "mem"
        C == shrink(F[c].cache, F[c].max_size - FileSize[id], F[c].max_count - 1)
        i == NewIndex(C.pairs)
    IN  [F EXCEPT ![c].cache = insert(C, id, FileSize[id]),
                  ![c].val = [j \in DOMAIN @ \cup {i} |-> IF j = i THEN a ELSE @[j]]]

forget_font_once(F, id) ==                                      \* variant
    IF id = Unset \/ ~Loaded(F, id) THEN F
    ELSE LET i == IndexOf(F[CacheOf(F, id)].cache, id)
         IN  [F EXCEPT ![CacheOf(F, id)].cache = forget(get(@, i), i)]
forget_font(F, id) ==
    IF id = Unset \/ ~Loaded(F, id) THEN F
    ELSE LET i == IndexOf(F[CacheOf(F, id)].cache, id)
         IN  [F EXCEPT ![CacheOf(F, id)].cache = forget(forget(get(@, i), i), i)]

\* F is left as G by taking a reference to id, and the font is the object a
Takes(F, id, G, a) ==
    \/ Loaded(F, id) /\ G = refer(F, id) /\ a = FontOf(F, id)
    \/ ~Loaded(F, id) /\ id \notin Missing /\ a \notin Existing(F) /\ G = load(F, id, a)

CannotLoad(F, id) == ~Loaded(F, id) /\ id \in Missing
-------------------------------------------------------------------------------
NewCache == [cache |-> init, val |-> << >>, max_size |-> Unlimited, max_count |-> Unlimited]

FontsInit ==
    /\ \E s \in MemLimits, n \in MmappedLimits :
          fonts = [mem |-> [NewCache EXCEPT !.max_size = s],
                   mmapped |-> [NewCache EXCEPT !.max_count = n]]
    /\ spans = [s \in Spans |-> NoSpan]
    /\ asked = [id \in Ids |-> 0]
    /\ state = "running"

\* Span:load_font_id() of another id: the old font goes before the new comes
LoadFont(s, id) ==
    LET F == forget_font(fonts, spans[s].font_id)
    IN  /\ state = "running"
        /\ spans[s].font_id # id
        /\ \E a \in Objects :
              /\ Takes(F, id, fonts', a)
              /\ spans' = [spans EXCEPT ![s] = [font_id |-> id, font |-> a]]
        /\ UNCHANGED <<asked, state>>

LoadNoFont(s, id) ==
    LET F == forget_font(fonts, spans[s].font_id)
    IN  /\ state = "running"
        /\ spans[s].font_id # id
        /\ id = Unset \/ CannotLoad(F, id)
        /\ fonts' = F
        /\ spans' = [spans EXCEPT ![s] = NoSpan]
        /\ UNCHANGED <<asked, state>>

\* Span:copy(), to split span s in two
CopyPointer(s, t) ==                                            \* variant
    /\ state = "running"
    /\ spans[s] # NoSpan /\ spans[t] = NoSpan
    /\ spans' = [spans EXCEPT ![t] = spans[s]]
    /\ UNCHANGED <<fonts, asked, state>>
Copy(s, t) ==
    /\ state = "running"
    /\ spans[s] # NoSpan /\ spans[t] = NoSpan
    /\ \E a \in Objects :
          /\ Takes(fonts, spans[s].font_id, fonts', a)
          /\ spans' = [spans EXCEPT ![t] = [font_id |-> spans[s].font_id, font |-> a]]
    /\ UNCHANGED <<asked, state>>

\* Span:free(), when a span is removed or its layout is freed
FreeSpan(s) ==
    /\ state = "running"
    /\ spans[s] # NoSpan
    /\ fonts' = forget_font(fonts, spans[s].font_id)
    /\ spans' = [spans EXCEPT ![s] = NoSpan]
    /\ UNCHANGED <<asked, state>>

\* Renderer:font_face_num(), which counts the faces and keeps the reference
FontFaceNum(id) ==
    /\ state = "running"
    /\ asked[id] < MaxAsked
    /\ \E a \in Objects : Takes(fonts, id, fonts', a)
    /\ asked' = [asked EXCEPT ![id] = @ + 1]
    /\ UNCHANGED <<spans, state>>

SetMemLimit(v) ==
    /\ state = "running"
    /\ fonts' = [fonts EXCEPT !.mem.max_size = v,
                              !.mem.cache = shrink(@, v, fonts.mem.max_count)]
    /\ UNCHANGED <<spans, asked, state>>

SetMmappedLimit(v) ==
    /\ state = "running"
    /\ fonts' = [fonts EXCEPT !.mmapped.max_count = v,
                              !.mmapped.cache = shrink(@, fonts.mmapped.max_size, v)]
    /\ UNCHANGED <<spans, asked, state>>

\* What clear() does to the objects: it frees the value of every link of the
\* array.  A link that is in no list points to an object that was freed already,
\* unless another font was given its memory, which is then freed twice.
FreesEachOnce(F, c) == Slots(F[c].cache.pairs) = F[c].cache.indices

\* Renderer:free(), once the layouts are freed
FreeRenderer ==
    /\ state = "running"
    /\ \A s \in Spans : spans[s] = NoSpan
    /\ state' = IF \A c \in Caches : FreesEachOnce(fonts, c) THEN "freed" ELSE "failed"
    /\ fonts' = [fonts EXCEPT !.mem.cache = init, !.mem.val = << >>,
                              !.mmapped.cache = init, !.mmapped.val = << >>]
    /\ asked' = [id \in Ids |-> 0]
    /\ UNCHANGED spans

FontsNext ==
    \/ \E s \in Spans, id \in Ids : LoadFont(s, id)
    \/ \E s \in Spans, id \in Ids \cup {Unset} : LoadNoFont(s, id)
    \/ \E s, t \in Spans : Copy(s, t)
    \/ \E s \in Spans : FreeSpan(s)
    \/ \E id \in Ids : FontFaceNum(id)
    \/ \E v \in MemLimits : SetMemLimit(v)
    \/ \E v \in MmappedLimits : SetMmappedLimit(v)
    \/ FreeRenderer

FontsSpec == FontsInit /\ [][FontsNext]_fontVars
-------------------------------------------------------------------------------
\* A span that has a font points to an object that exists and that is the font
\* of its font_id: no eviction, change of limits or failed load frees it under
\* the span, which uses it without looking it up (tr_font.t:131).
HeldFontAlive ==
    \A s \in Spans : spans[s].font # Nil =>
        /\ Loaded(fonts, spans[s].font_id)
        /\ FontOf(fonts, spans[s].font_id) = spans[s].font

\* A font has one reference for each span that uses it, and those that
\* font_face_num() took: get() counts one more when forget_font() looks the font
\* up, and it forgets twice (tr_font.t:170).
Refcount(F, id) ==
    IF Loaded(F, id)
    THEN F[CacheOf(F, id)].cache.item[IndexOf(F[CacheOf(F, id)].cache, id)].refcount
    ELSE 0
Users(id) == {s \in Spans : spans[s].font_id = id}
RefsAccounted ==
    \A id \in Ids : Refcount(fonts, id) = Cardinality(Users(id)) + asked[id]

===============================================================================
