----------------------------- MODULE LoggerTags -----------------------------
(***************************************************************************)
(* The tags of a logger: one text of entries between commas, and how many  *)
(* there are (logging/tags.cpp); and the ddtags of an event, which that    *)
(* text ends (types/upload_util.cpp).                                      *)
(*                                                                         *)
(* A text is a sequence of characters.  Only the characters that the code  *)
(* tells apart are modelled, by sets of them.                              *)
(***************************************************************************)
EXTENDS Integers, Sequences, FiniteSets, SequencesExt, FiniteSetsExt

CONSTANTS Lower,      \* the characters a to z
          LowerOf,    \* the lower case of each upper case character
          Others,     \* the other characters that are kept: 0 to 9, _ : - . /
          Reserved,   \* the keys that events use themselves
          MaxLength,  \* MAX_TAG_ENTRY_LEN: 200 bytes
          MaxTags     \* MAX_TAGS_PER_LOGGER: 100

Sanitize(c) ==
  IF c \in DOMAIN LowerOf THEN LowerOf[c] ELSE IF c \in Lower \union Others THEN c ELSE "_"

First(s, c) == IF \E i \in DOMAIN s : s[i] = c THEN SelectInSeq(s, LAMBDA x : x = c) ELSE Len(s) + 1
UpTo(s, c)  == SubSeq(s, 1, First(s, c) - 1)
From(s, c)  == SubSeq(s, First(s, c) + 1, Len(s))
KeyOf(entry) == UpTo(entry, ":")

\* Without the colons at its end.
Trimmed(s) ==
  LET n == CHOOSE n \in 0..Len(s) : /\ n = 0 \/ s[n] # ":"
                                    /\ \A i \in n + 1..Len(s) : s[i] = ":"
  IN  SubSeq(s, 1, n)

\* TagBuffer::SanitizeAndStore(): what becomes of a key and a value, and
\* whether that is what was asked for.
Store(key, value) ==
  LET given  == Trimmed(key) \o << ":" >> \o value
      kept   == SubSeq(given, 1, Min({MaxLength, Len(given)}))
      cut    == Len(Trimmed(key)) > MaxLength \/ (Len(given) > MaxLength /\ value # << >>)
      stored == [i \in DOMAIN kept |-> Sanitize(kept[i])]
  IN  [entry  |-> Trimmed(stored),
       result |-> IF cut THEN "AcceptedWithTruncation"
                  ELSE IF stored # kept THEN "AcceptedWithSanitization" ELSE "Accepted"]
StoreEntry(entry) == Store(KeyOf(entry), From(entry, ":"))

\* The entries of a text, one next_entry() after the other.
RECURSIVE Entries(_)
Entries(text) == IF text = << >> THEN << >> ELSE << UpTo(text, ",") >> \o Entries(From(text, ","))

Comma(text) == IF text = << >> THEN << >> ELSE << "," >>

-----------------------------------------------------------------------------
(***************************************************************************)
(* LoggerTags, as the text and the number of its entries.                  *)
(***************************************************************************)
NoTags == [text |-> << >>, count |-> 0]

Add(tags, key, value) ==
  LET stored  == Store(key, value)
      name    == KeyOf(stored.entry)
      Same(r) == [tags |-> tags, result |-> r]
  IN CASE name = << >>               -> Same("RejectedAsEmpty")
       [] name # << >> /\ name[1] \notin Lower -> Same("RejectedAsNotBeginningAZ")
       [] name \in Reserved          -> Same("RejectedAsReserved")
       [] name \notin Reserved /\ stored.entry \in ToSet(Entries(tags.text)) -> Same(stored.result)
       [] name # << >> /\ tags.count >= MaxTags /\ stored.entry \notin ToSet(Entries(tags.text))
                                     -> Same("RejectedDueToTagLimit")
       [] OTHER -> [tags |-> [text  |-> tags.text \o Comma(tags.text) \o stored.entry,
                              count |-> tags.count + 1],
                    result |-> stored.result]

AddEntry(tags, entry) == Add(tags, KeyOf(entry), From(entry, ":"))

\* remove_matching(): the entries that stay are moved up in the text.
RemoveMatching(tags, gone) ==
  LET entries == Entries(tags.text)
      stay    == SelectSeq(entries, LAMBDA e : e \notin gone)
  IN  [text  |-> FoldLeft(LAMBDA text, e : text \o Comma(text) \o e, << >>, stay),
       count |-> tags.count - (Len(entries) - Len(stay))]

RemoveEntry(tags, entry) == RemoveMatching(tags, {StoreEntry(entry).entry})

RemoveEntriesWithKey(tags, key) ==
  RemoveMatching(tags, {e \in ToSet(Entries(tags.text)) : KeyOf(e) = KeyOf(StoreEntry(key).entry)})

-----------------------------------------------------------------------------
(***************************************************************************)
(* BuildDdTags(): the tags of the service, and those of the logger.        *)
(***************************************************************************)
ServiceTags == << "service", "version", "env", "sdk_version", "variant" >>
Optional    == {"version", "variant"}

\* `of' gives a text to each of ServiceTags, empty for one that is not set.
BuildDdTags(of, tail) ==
  LET set == SelectSeq(ServiceTags, LAMBDA t : t \notin Optional \/ of[t] # << >>)
      Tag(t) == << t, ":" >> \o SelectSeq(of[t], LAMBDA c : c \notin {",", ":"})
  IN  FoldLeft(LAMBDA text, t : text \o Comma(text) \o Tag(t), << >>, set)
        \o (IF tail = << >> THEN << >> ELSE << "," >> \o tail)

-----------------------------------------------------------------------------
\* What the text of a logger's tags always is: as many entries as are counted,
\* no two of them the same, each as it must be.
WellFormed(tags) ==
  LET entries == Entries(tags.text)
  IN  /\ tags.count = Len(entries) /\ tags.count <= MaxTags /\ IsInjective(entries)
      /\ \A i \in DOMAIN entries :
           /\ Len(entries[i]) \in 1..MaxLength /\ entries[i][1] \in Lower
           /\ ToSet(entries[i]) \subseteq Lower \union Others /\ Last(entries[i]) # ":"
           /\ KeyOf(entries[i]) \notin Reserved

\* Adding a tag adds one entry or changes nothing; the tag is found by the
\* words it was added with, by its entry and by its key, and nothing else is
\* removed with it.
AddedIsRemoved(tags, key, value) ==
  LET got   == Add(tags, key, value)
      entry == Store(key, value).entry
      old   == Entries(tags.text)
      Rest(t) == ToSet(Entries(t.text))
  IN  /\ WellFormed(got.tags)
      /\ IF got.result \in {"Accepted", "AcceptedWithTruncation", "AcceptedWithSanitization"}
         THEN /\ Rest(got.tags) = ToSet(old) \union {entry}
              /\ got.result = "Accepted" => entry = Trimmed(Trimmed(key) \o << ":" >> \o value)
              /\ \A e \in {entry, Trimmed(key) \o << ":" >> \o value} :
                   ":" \in ToSet(e) =>
                     /\ WellFormed(RemoveEntry(got.tags, e))
                     /\ Rest(RemoveEntry(got.tags, e)) = ToSet(old) \ {entry}
              /\ \A k \in {key, KeyOf(entry)} :
                   /\ WellFormed(RemoveEntriesWithKey(got.tags, k))
                   /\ Rest(RemoveEntriesWithKey(got.tags, k)) = {e \in ToSet(old) : KeyOf(e) # KeyOf(entry)}
         ELSE got.tags = tags

\* The ddtags of an event can be told apart again: each tag of the service
\* once, whatever was configured and whatever the logger was given.
TagsStayApart(of, tags) ==
  LET entries == Entries(BuildDdTags(of, tags.text))
      Base    == SelectSeq(entries, LAMBDA e : KeyOf(e) \in {<< t >> : t \in ToSet(ServiceTags)})
  IN  /\ entries = Base \o Entries(tags.text)
      /\ IsInjective([i \in DOMAIN Base |-> KeyOf(Base[i])])
      /\ \A t \in ToSet(ServiceTags) \ Optional : \E i \in DOMAIN Base : KeyOf(Base[i]) = << t >>
=============================================================================
