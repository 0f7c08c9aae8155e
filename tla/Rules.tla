------------------------------- MODULE Rules -------------------------------
(***************************************************************************)
(* The tables and rules of src/internal/mapping and what config seeds:     *)
(* monbooru's tag form, the PTR's spellings of it both ways, what a post's *)
(* metadata is pushed as, and the lookup chain of a config from before the *)
(* similarity services.                                                    *)
(*                                                                         *)
(* They are pure: each is an operator, and a behavior is one case worked   *)
(* out.  A tag is a sequence of tokens, a token being a word or one of the *)
(* characters the rules look at.  Left out: upper case, the quotes and the *)
(* control characters, which are folded or dropped before anything else    *)
(* looks at a tag, and the scripts CleanTag treats apart.                  *)
(***************************************************************************)
EXTENDS Naturals, SequencesExt

CONSTANTS
    Letters,        \* tokens that names are made of
    MaxName,        \* bound: tokens in a name
    LongNames       \* a few names beyond it

VARIABLES
    kind,       \* the rule at work
    input,
    output

vars == <<kind, input, output>>

-----------------------------------------------------------------------------
(* Tags *)

Colon == ":"
Space == " "
Under == "_"

Has(t) == Colon \in ToSet(t)
Cut(t) == SelectInSeq(t, LAMBDA c : c = Colon)
Before(t) == SubSeq(t, 1, Cut(t) - 1)
After(t) == SubSeq(t, Cut(t) + 1, Len(t))
Joined(ns, name) == ns \o <<Colon>> \o name

\* The tag without c at its ends.
Trim(t, c) ==
    LET kept == {i \in DOMAIN t : t[i] # c} IN
    IF kept = {} THEN <<>> ELSE SubSeq(t, Min(kept), Max(kept))

\* Each run of spaces becomes one.
Folded(t) ==
    FoldLeft(LAMBDA out, x : IF x # Space THEN Append(out, x)
                             ELSE IF out # <<>> /\ Last(out) = Space THEN out ELSE Append(out, Space),
             <<>>, t)

Replaced(t, a, b) == [i \in DOMAIN t |-> IF t[i] = a THEN b ELSE t[i]]

Builtin == {<<c>> : c \in {"general", "character", "artist", "copyright", "meta",
                           "rating", "medium", "person", "year", "species"}}

normalizeName(name) == Trim(Replaced(Folded(Trim(name, Space)), Space, Under), Under)

formatTag(category, name) ==
    IF category = <<>> \/ name = <<>> THEN <<>>
    ELSE IF category = <<"general">> THEN name ELSE Joined(category, name)

normalizeTag(tag) ==
    LET t == Trim(tag, Space)
        name == normalizeName(After(t))
    IN IF Has(t) /\ Before(t) \in Builtin
       THEN IF name = <<>> THEN <<>> ELSE formatTag(Before(t), name)
       ELSE normalizeName(t)

-----------------------------------------------------------------------------
(* The PTR *)

\* Rows in the table's order: a category's first is the one it is sent under.
ptrNamespaceTable ==
    << <<"creator", "artist">>, <<"artist", "artist">>, <<"character", "character">>,
       <<"series", "copyright">>, <<"copyright", "copyright">>, <<"studio", "copyright">>,
       <<"person", "person">>, <<"species", "species">>, <<"medium", "medium">>,
       <<"meta", "meta">>, <<"year", "year">> >>

Rows(column, word) == {i \in DOMAIN ptrNamespaceTable : <<ptrNamespaceTable[i][column]>> = word}

Rating == {"general", "sensitive", "questionable", "explicit"}
RatingWords == [safe |-> "general", suggestive |-> "sensitive", q |-> "questionable",
                e |-> "explicit", explicit |-> "explicit"]

\* mapRating: "s" is another rating on danbooru.  "" when unrecognized.
mapRating(family, raw) ==
    IF raw = "s" THEN IF family = "danbooru" THEN "sensitive" ELSE "general"
    ELSE IF raw \in DOMAIN RatingWords THEN RatingWords[raw] ELSE ""

\* What a stored PTR tag is in monbooru's form; <<>> when it is dropped.
MapPTRTag(tag) ==
    LET ns == Before(tag)
        sub == After(tag)
        rating == IF Len(sub) = 1 THEN mapRating("generic", sub[1]) ELSE ""
    IN IF ~Has(tag) \/ sub = <<>> THEN normalizeTag(tag)
       ELSE IF ns = <<"rating">> THEN IF rating = "" THEN <<>> ELSE <<"rating", Colon, rating>>
       ELSE IF Rows(1, ns) = {} THEN <<>>
       ELSE normalizeTag(formatTag(<<ptrNamespaceTable[Min(Rows(1, ns))][2]>>, sub))

maxSubtagForms == 8

\* mutant: verbatim and spaced, and no mix
subtagFormsTwo(name) == {name, Replaced(name, Under, Space)}

\* Verbatim, spaced, and for a short name every mix.
subtagForms(name) ==
    LET at == {i \in DOMAIN name : name[i] = Under} IN
    IF 2 ^ Cardinality(at) > maxSubtagForms THEN {name, Replaced(name, Under, Space)}
    ELSE {[i \in DOMAIN name |-> IF i \in s THEN Space ELSE name[i]] : s \in SUBSET at}

\* PTRSpellingsFor: where a tag of monbooru's can have come from.
PTRNamespacesFor(tag) ==
    LET rows == IF Has(tag) THEN Rows(2, Before(tag)) ELSE {} IN
    IF rows = {} THEN subtagForms(tag)
    ELSE UNION {{Joined(<<ptrNamespaceTable[i][1]>>, f) : f \in subtagForms(After(tag))} : i \in rows}

\* stripTagGumpf: spaces, and the "-" and "system:" a tag may not begin with.
Garbage(t) == IF t # <<>> /\ t[1] = "-" THEN 1
              ELSE IF Len(t) > 1 /\ t[1] = "system" /\ t[2] = Colon THEN 2 ELSE 0

stripTagGumpf(tag) ==
    LET t == Trim(Folded(tag), Space)
        rest(n) == SubSeq(t, n + 1, Len(t))
        begins[n \in 0..Len(t)] == IF Garbage(rest(n)) = 0 THEN n ELSE begins[n + Garbage(rest(n))]
    IN Trim(rest(begins[0]), Space)

cleanTag(tag) ==
    LET t == IF Len(tag) > 1 /\ tag[1] = Colon /\ Colon \notin ToSet(Tail(tag)) THEN <<Colon>> \o tag ELSE tag
        s == stripTagGumpf(t)
        ns == stripTagGumpf(IF Has(s) THEN Before(s) ELSE <<>>)
        sub == stripTagGumpf(IF Has(s) THEN After(s) ELSE s)
    IN IF ~Has(t) THEN s
       ELSE IF ns # <<>> THEN Joined(ns, sub)
       ELSE IF Has(sub) THEN <<Colon>> \o sub ELSE sub

\* mutant: what the server would rewrite is sent too
TagOKAny(tag) == tag # <<>>

\* The server would store the tag as it is.
TagOK(tag) == tag # <<>> /\ cleanTag(tag) = tag /\ (Has(tag) => After(tag) # <<>>)

ptrSupportedNamespaces == {<<n>> : n \in {"creator", "character", "person", "series", "photoset", "studio",
                                          "species", "title", "medium", "meta"}}
contribDeniedCategories == {<<"rating">>, <<"year">>}

\* The tag a contribution sends, <<>> when it is refused.
ContribTagFor(tag) ==
    LET cat == Before(tag)
        rows == Rows(2, cat)
        ns == IF ~Has(tag) THEN <<>> ELSE IF rows = {} THEN cat ELSE <<ptrNamespaceTable[Min(rows)][1]>>
        sub == Replaced(IF Has(tag) THEN After(tag) ELSE tag, Under, Space)
        candidate == IF ns = <<>> THEN sub ELSE Joined(ns, sub)
    IN IF \/ Has(tag) /\ cat \in contribDeniedCategories
          \/ Has(tag) /\ ns \notin ptrSupportedNamespaces
          \/ ~TagOK(candidate)
       THEN <<>> ELSE candidate

-----------------------------------------------------------------------------
(* A post *)

\* baseCategory: "" drops the tag, a suffix of its own is general.
baseCategories == [general |-> "general", artist |-> "artist", lore |-> "meta", series |-> "copyright", invalid |-> ""]
baseCategory(suffix) == IF suffix \in DOMAIN baseCategories THEN baseCategories[suffix] ELSE "general"

\* splitNamespace, of a flat list.
Namespaces == [artist |-> "artist", creator |-> "artist", series |-> "copyright", theme |-> "general"]
Split(name) ==
    IF Has(name) /\ After(name) # <<>> /\ Cut(name) = 2 /\ name[1] \in DOMAIN Namespaces
    THEN formatTag(<<Namespaces[name[1]]>>, After(name)) ELSE name

validTagCategories == Builtin \ {<<"rating">>}

\* The full form is tried before the bare name; <<>> suppresses the tag.
applyTagRule(rules, tag) ==
    LET prefix == IF Has(tag) /\ Before(tag) \in validTagCategories THEN Before(tag) ELSE <<>>
        name == IF prefix = <<>> THEN tag ELSE After(tag)
        key == IF tag \in DOMAIN rules THEN tag ELSE name
        to == rules[key]
    IN IF key \notin DOMAIN rules THEN tag
       ELSE IF to = <<>> \/ prefix = <<>> THEN to
       ELSE IF Has(to) /\ Before(to) \in validTagCategories THEN to
       ELSE Joined(prefix, to)

\* philomena has no rating field: one of its tags is the rating.
philomenaRatings == {"safe", "suggestive", "questionable", "explicit"}
RatingTags(post) == {n \in post.names : Len(n) = 1 /\ n[1] \in philomenaRatings}
Lifts(post) == post.family = "philomena"
rawRating(post) ==
    IF post.raw = "" /\ Lifts(post) /\ RatingTags(post) # {}
    THEN (CHOOSE n \in RatingTags(post) : TRUE)[1] ELSE post.raw

\* categoryFor: the operator's override, the profile's, the table.
categoryFor(post, suffix) ==
    IF suffix \in DOMAIN post.overrides THEN post.overrides[suffix] ELSE baseCategory(suffix)

\* anyCategorySuffix: an opt-in extra is no category split.
Splits(post) ==
    post.suffix # "" /\ (post.suffix \in DOMAIN baseCategories \/ post.suffix \in DOMAIN post.overrides)

ratingFor(post) ==
    LET raw == rawRating(post)
        r == mapRating(post.family, raw)
    IN IF raw \in DOMAIN post.ratings THEN post.ratings[raw] ELSE IF r # "" THEN r ELSE post.default

IsRating(tag) == Has(tag) /\ Before(tag) = <<"rating">>

\* mutant: a rating is looked for before the profile's rules
keptEarly(rules, tags) ==
    {applyTagRule(rules, t) : t \in {u \in {normalizeTag(x) : x \in tags} : u # <<>> /\ ~IsRating(u)}} \ {<<>>}

\* The tags of a post: normalized, by the rules, none of them a rating.
kept(rules, tags) == {t \in {applyTagRule(rules, normalizeTag(x)) : x \in tags} : t # <<>> /\ ~IsRating(t)}

\* The client's extra tags; no rating is taken out of them.
MergeExtras(post) == {normalizeTag(x) : x \in post.extras} \ {<<>>}

\* Map, then MergeExtras.  suffix is "" where the post has no tags_<x>.
Map(post) ==
    LET cat == categoryFor(post, post.suffix)
        tags == IF Splits(post)
                THEN IF cat = "" THEN {} ELSE {formatTag(<<cat>>, n) : n \in post.names}
                ELSE {Split(n) : n \in {m \in post.names : ~(Lifts(post) /\ m \in RatingTags(post))}}
        manga == {formatTag(<<"artist">>, n) : n \in post.credits}
        rating == ratingFor(post)
    IN [tags |-> kept(post.rules, tags \cup manga)
                 \cup (IF rating = "" THEN {} ELSE {<<"rating", Colon, rating>>})
                 \cup MergeExtras(post),
        rating |-> rating]

-----------------------------------------------------------------------------
(* The lookup chain *)

\* Some of the sites the chain is seeded with, their place and the place they
\* had before the similarity services.
defaultLookupSites == [danbooru |-> 1, gelbooru |-> 4, rule34 |-> 5, e621 |-> 6]
legacyLookupOrders == [danbooru |-> 1, gelbooru |-> 2, rule34 |-> 3, e621 |-> 4]
Seeded == DOMAIN defaultLookupSites

\* A config: its sites' places, 0 for none, and the services'.
Absent == 99
Highest(sites) == Max({sites[s] : s \in DOMAIN sites} \cup {0})

\* mutant: the sites that are missing are added before the walk is looked at
UntouchedLate(sites) ==
    \A s \in Seeded \cup DOMAIN sites :
        LET place == IF s \in DOMAIN sites THEN sites[s] ELSE defaultLookupSites[s] IN
        place > 0 => s \in Seeded /\ legacyLookupOrders[s] = place

Untouched(sites) ==
    \A s \in DOMAIN sites : sites[s] > 0 => s \in Seeded /\ legacyLookupOrders[s] = sites[s]

seedLookupDefaults(f) ==
    LET all == [s \in Seeded \cup DOMAIN f.sites |->
                  IF s \in DOMAIN f.sites THEN f.sites[s] ELSE defaultLookupSites[s]]
        moved == [s \in DOMAIN all |-> IF s \in Seeded /\ all[s] > 0 THEN defaultLookupSites[s] ELSE all[s]]
    IN IF f.hasLookup THEN [f EXCEPT !.sites = all]
       ELSE IF Untouched(f.sites)
       THEN [hasLookup |-> TRUE, sites |-> moved, iqdb |-> 2, saucenao |-> 3]
       ELSE [hasLookup |-> TRUE, sites |-> all, iqdb |-> Highest(all) + 1, saucenao |-> Highest(all) + 2]

\* LookupChain: the sources with a place, by it and then by name.
Alphabet == <<"danbooru", "e621", "gelbooru", "iqdb", "mine", "rule34", "saucenao">>
LookupChain(c) ==
    LET place(s) == IF s = "iqdb" THEN c.iqdb ELSE IF s = "saucenao" THEN c.saucenao
                    ELSE IF s \in DOMAIN c.sites THEN c.sites[s] ELSE 0
        named(s) == SelectInSeq(Alphabet, LAMBDA x : x = s)
    IN SetToSortSeq({s \in ToSet(Alphabet) : place(s) > 0},
                    LAMBDA a, b : place(a) < place(b) \/ (place(a) = place(b) /\ named(a) < named(b)))

-----------------------------------------------------------------------------
(* The cases *)

Names == UNION {[1..n -> Letters] : n \in 1..MaxName} \cup LongNames
InCategory(words) == {<<>>} \cup {<<w, Colon>> : w \in words}

Init == kind = "none" /\ input = <<>> /\ output = <<>>

Idle == kind = "none"
Work(k, in, out) == kind' = k /\ input' = in /\ output' = out

\* A contribution of a tag as monbooru has it.
Contribute ==
    /\ Idle
    /\ \E pre \in InCategory({"artist", "copyright", "year", "photoset", "mine"}), name \in Names :
           LET tag == pre \o name IN
           normalizeTag(tag) = tag /\ Work("contribute", tag, ContribTagFor(tag))

\* A tag as the repository stores it, as it is shown and searched.
Spell ==
    /\ Idle
    /\ \E pre \in InCategory({"creator", "artist", "studio", "year", "title", "rating"}), name \in Names :
           LET tag == pre \o name
               mapped == MapPTRTag(tag)
           IN TagOK(tag) /\ mapped # <<>> /\ Work("spell", tag, [tag |-> mapped, from |-> PTRNamespacesFor(mapped)])

Some == <<"a">>
NoRules == [t \in {} |-> <<>>]

\* Credits and a client's extra tags come with every post.
Push ==
    /\ Idle
    /\ \E family \in {"danbooru", "philomena", "generic"},
          suffix \in {"", "artist", "invalid", "bookmark"},
          names \in SUBSET {Some, <<"artist", Colon, "a">>, <<"rating", Colon, "e">>, <<"safe">>},
          raw \in {"", "s", "x"},
          overrides \in {<<>>, [bookmark |-> "meta"]},
          ratings \in {<<>>, [safe |-> "sensitive"]},
          default \in {"", "explicit"},
          rules \in {NoRules} \cup [{Some} -> {<<>>, <<"b">>, <<"rating", Colon, "e">>, <<"meta", Colon, "b">>}] :
           LET post == [family |-> family, suffix |-> suffix, names |-> names, credits |-> {<<"safe">>}, raw |-> raw,
                        overrides |-> overrides, ratings |-> ratings, default |-> default, rules |-> rules,
                        extras |-> {<<"b">>}]
           IN Work("push", post, Map(post))

\* What a config file may say of the chain, from before the services or since:
\* old are the sites still where they were put then.
Seed ==
    /\ Idle
    /\ \E old \in SUBSET Seeded, mine \in {Absent, 0, 3}, has \in BOOLEAN :
       \E places \in [Seeded \ old -> {Absent, 0, 2, 7}] :
           LET at(s) == IF s = "mine" THEN mine ELSE IF s \in old THEN legacyLookupOrders[s] ELSE places[s]
               sites == {s \in Seeded \cup {"mine"} : at(s) # Absent}
               f == [hasLookup |-> has, sites |-> [s \in sites |-> at(s)], iqdb |-> 0, saucenao |-> 0]
           IN Work("seed", f, seedLookupDefaults(f))

Next == Contribute \/ Spell \/ Push \/ Seed

Spec == Init /\ [][Next]_vars

-----------------------------------------------------------------------------
(* Properties *)

\* What is contributed comes back from the PTR as the tag it was, so that a
\* later look finds it carried.  A category of the operator's own, which
\* monbooru does not ship, may come back as another.
ContributionReturns ==
    kind = "contribute" /\ output # <<>> /\ (Has(input) => Before(input) \in Builtin) => MapPTRTag(output) = input

\* The tag a PTR tag is shown as leads back to it: for every spelling of at
\* most three separators that loses none at its ends.
SpellingReaches ==
    LET name == IF Has(input) THEN After(input) ELSE input
        separators == {i \in DOMAIN name : name[i] \in {Space, Under}}
        ends == name # <<>> /\ name[1] # Under /\ Last(name) # Under
    IN kind = "spell" /\ ~IsRating(input) /\ Cardinality(separators) <= 3 /\ ends => input \in output.from

\* "monbooru keeps the first rating tag of a push, so only pf.Rating's goes"
\* (map.go:250), whatever the site, the profile's rules and overrides say.
OneRating ==
    kind = "push" =>
        /\ {t \in output.tags : IsRating(t)} = IF output.rating = "" THEN {} ELSE {<<"rating", Colon, output.rating>>}
        /\ output.rating \in Rating \cup {""}

\* A config from before the similarity services: an untouched walk becomes the
\* one shipped now, less what the operator had taken out; one of the
\* operator's own keeps its order, and the services follow it.  Loading what
\* was saved changes nothing more.
SeededWalk ==
    LET before == LookupChain(input)
        now == LookupChain(output)
        shipped == <<"danbooru", "iqdb", "saucenao", "gelbooru", "rule34", "e621">>
        out == {s \in DOMAIN input.sites : input.sites[s] = 0}
        old == [danbooru |-> 1, gelbooru |-> 2, rule34 |-> 3, e621 |-> 4]
        untouched == \A s \in ToSet(before) : s \in DOMAIN old /\ input.sites[s] = old[s]
    IN kind = "seed" =>
        /\ seedLookupDefaults(output) = output
        /\ ~input.hasLookup /\ untouched => now = SelectSeq(shipped, LAMBDA s : s \notin out)
        /\ ~input.hasLookup /\ ~untouched =>
             /\ SelectSeq(now, LAMBDA s : s \in ToSet(before)) = before
             /\ SubSeq(now, Len(now) - 1, Len(now)) = <<"iqdb", "saucenao">>

TablesAgree == ContributionReturns /\ SpellingReaches /\ OneRating /\ SeededWalk
=============================================================================
