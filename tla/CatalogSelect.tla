--------------------------- MODULE CatalogSelect ---------------------------
(***************************************************************************)
(* internal/routing/catalog.go: the choice of one usable model profile for *)
(* a requested provider, model and effort, and the merge of a provider     *)
(* refresh into the catalog.  A catalog is a set of profiles with distinct *)
(* keys.  The eight weighted terms of a score are reduced to two, quality  *)
(* and cost, of which the first may be curated by hand.                    *)
(***************************************************************************)
EXTENDS Integers, FiniteSets, FiniteSetsExt

CONSTANTS Profiles,   \* what the provider command lines may report
          Alphabet    \* [names -> Nat], their lexicographic order

(* The value of a field that is not set. *)
Unset == ""

(* The stable effort of a native one; "" for a name nobody has mapped. *)
NormalizeEffort(native) ==
    CASE native \in {"minimal", "none", "low"} -> "low"
      [] native = "medium" -> "medium"
      [] native \in {"high", "xhigh"} -> "high"
      [] native \in {"max", "ultra", "adaptive-high", "adaptive"} -> "ultra"
      [] OTHER -> Unset

(* A profile is [provider, model, native, quality, cost, usable]. *)
Key(p) == <<p.provider, p.model, p.native>>
Keys(profiles) == {Key(p) : p \in profiles}

CatalogScore(p, weights) == weights.quality * p.quality - weights.cost * p.cost

(* The first of RankProfiles: the highest score, then the first name. *)
Ahead(p, q, weights) ==
    LET place(r) == <<Alphabet[r.provider], Alphabet[r.model], Alphabet[r.native]>>
        i == CHOOSE k \in 1..3 : place(p)[k] # place(q)[k] /\ \A j \in 1..(k-1) : place(p)[j] = place(q)[j]
    IN  \/ CatalogScore(p, weights) > CatalogScore(q, weights)
        \/ CatalogScore(p, weights) = CatalogScore(q, weights) /\ place(p)[i] < place(q)[i]
RankFirst(profiles, weights) ==
    CHOOSE p \in profiles : \A q \in profiles \ {p} : Ahead(p, q, weights)

(* A pin that is "" accepts everything. *)
Meets(pin, value) == pin = Unset \/ pin = value
RequestedEffort(req) ==
    IF req.effort = Unset /\ req.native # Unset THEN NormalizeEffort(req.native) ELSE req.effort

(* Exact provider, model and native effort; then any effort of that band;  *)
(* then any model of the provider in that band.                            *)
Candidates(profiles, req) ==
    LET band == {p \in profiles : p.usable /\ Meets(req.provider, p.provider)
                                    /\ Meets(RequestedEffort(req), NormalizeEffort(p.native))}
        sameModel == {p \in band : Meets(req.model, p.model)}
        exact == {p \in sameModel : Meets(req.native, p.native)}
    IN  IF exact # {} THEN exact ELSE IF sameModel # {} THEN sameModel ELSE band

(* The set of the chosen profile; {} for none.  Another provider is tried  *)
(* only for a request that allows it, with the requested effort alone.     *)
SelectCatalogProfile(profiles, req, weights) ==
    LET own == Candidates(profiles, req)
        other == IF req.cross = "true"
                   THEN Candidates(profiles, [req EXCEPT !.provider = Unset, !.model = Unset, !.native = Unset])
                   ELSE {}
        all == IF own # {} THEN own ELSE other
    IN  IF all = {} THEN {} ELSE {RankFirst(all, weights)}

CatalogSelectionReason(req, p) ==
    IF ~Meets(req.provider, p.provider) THEN "cross-provider fallback"
    ELSE IF ~Meets(req.model, p.model) THEN "same-provider model fallback"
    ELSE IF ~Meets(req.native, p.native) THEN "same-model effort fallback"
    ELSE "exact catalog profile"

MergeProviderProfilesForgets(previous, fresh, provider) ==
    {[p EXCEPT !.usable = TRUE] : p \in fresh}
    \cup {q \in previous : q.provider # provider}
    \cup {[q EXCEPT !.usable = FALSE] :
             q \in {r \in previous : r.provider = provider /\ Key(r) \notin Keys(fresh)}}
(* A successful refresh: what the provider reports is usable and keeps its *)
(* curated quality, what it no longer reports stays as unusable evidence,  *)
(* and the other providers' profiles are left alone.                       *)
MergeProviderProfiles(previous, fresh, provider) ==
    LET kept(p) == LET old == {q \in previous : Key(q) = Key(p) /\ q.quality # 0}
                   IN  IF old = {} THEN p.quality ELSE (CHOOSE q \in old : TRUE).quality
    IN  {[p EXCEPT !.quality = kept(p), !.usable = TRUE] : p \in fresh}
        \cup {q \in previous : q.provider # provider}
        \cup {[q EXCEPT !.usable = FALSE] :
                 q \in {r \in previous : r.provider = provider /\ Key(r) \notin Keys(fresh)}}
=============================================================================
