--------------------------------- MODULE Tags ---------------------------------
(***************************************************************************)
(* The tags of jobs (features/tags).  Putting the tags of a job looks each *)
(* up by its slug, creates those that are missing, and brings the links to *)
(* what was asked; a tag may be deleted when no job has it.  Requests read *)
(* and later write, in transactions that see what others committed.        *)
(***************************************************************************)
EXTENDS Naturals, FiniteSets

CONSTANTS
  Asker, Tagged,         \* clients; the jobs that have tags
  Tag, Slug,             \* the rows there may be, what tells tags apart (slugify of the name)
  MaxTagAsks             \* bound: requests

VARIABLES
  tags,                  \* tags
  tagOf,                 \* job_tags: pairs of a job and a tag
  tagAsk,                   \* the request each client has under way
  asked,
  wanted,                \* history: the tags the last put of each job asked for
  crossed                \* history: jobs whose links another request may have changed meanwhile

tagVars == <<tags, tagOf, tagAsk, asked, wanted, crossed>>

NoTag == [state |-> "unused", slug |-> "none", active |-> TRUE]
NoTagAsk == [step |-> "none", job |-> "none", tag |-> "none", lacks |-> {}, found |-> {}, had |-> {}, mixed |-> FALSE]

TagsInit ==
  /\ tags = [t \in Tag |-> NoTag] /\ tagOf = {} /\ asked = 0
  /\ tagAsk = [a \in Asker |-> NoTagAsk]
  /\ wanted = [j \in Tagged |-> {}] /\ crossed = {}

There == {t \in Tag : tags[t].state = "there"}
SlugsOf(T) == {tags[t].slug : t \in T}
\* Slugs a row holds or an open transaction has inserted: the unique constraint of the table.
Inserted(a) == IF tagAsk[a].step \in {"compare", "save"} THEN tagAsk[a].lacks ELSE {}
Waits(a, S) == \E b \in Asker \ {a} : Inserted(b) \intersect S # {}
Answered(a) == tagAsk' = [tagAsk EXCEPT ![a] = NoTagAsk]
HasTag(j) == {t \in Tag : <<j, t>> \in tagOf}

NewAsk(a) == tagAsk[a] = NoTagAsk /\ asked < MaxTagAsks /\ asked' = asked + 1

-----------------------------------------------------------------------------
\* put_job_tags: get_or_create_tag looks every slug up ...
PutTags(a, j, S) ==
  /\ NewAsk(a)
  /\ tagAsk' = [b \in Asker |->
       IF b = a THEN [NoTagAsk EXCEPT !.step = "insert", !.job = j, !.lacks = S \ SlugsOf(There),
                                   !.found = {t \in There : tags[t].slug \in S},
                                   !.mixed = \E c \in Asker \ {a} : tagAsk[c].job = j]
       ELSE [tagAsk[b] EXCEPT !.mixed = @ \/ tagAsk[b].job = j]]
  /\ UNCHANGED <<tags, tagOf, wanted, crossed>>
\* ... and inserts what it did not find, which waits for who inserted the same and fails on a row that is there.
InsertTags(a) ==
  /\ tagAsk[a].step = "insert" /\ ~Waits(a, tagAsk[a].lacks)
  /\ IF tagAsk[a].lacks \intersect SlugsOf(There) # {} THEN Answered(a) ELSE tagAsk' = [tagAsk EXCEPT ![a].step = "compare"]
  /\ UNCHANGED <<tags, tagOf, asked, wanted, crossed>>
\* sync_job_tags: the links there are now ...
CompareTags(a) ==
  /\ tagAsk[a].step = "compare"
  /\ tagAsk' = [tagAsk EXCEPT ![a].step = "save", ![a].had = HasTag(tagAsk[a].job)]
  /\ UNCHANGED <<tags, tagOf, asked, wanted, crossed>>

\* ... less those that were not asked for, and those that are missing.
Synced(a, target) == (HasTag(tagAsk[a].job) \ (tagAsk[a].had \ target)) \union (target \ tagAsk[a].had)
\* Both constraints hold: no tag that is gone, no link twice.
SaveTags(a) ==
  LET j == tagAsk[a].job
      missing == tagAsk[a].lacks
      fits == tagAsk[a].found \subseteq There /\ (tagAsk[a].found \ tagAsk[a].had) \intersect HasTag(j) = {}
  IN
  /\ tagAsk[a].step = "save"
  /\ \/ /\ fits
        /\ \E new \in SUBSET {t \in Tag : tags[t].state = "unused"} :
             /\ Cardinality(new) = Cardinality(missing)
             /\ \E name \in [new -> missing] :
                  /\ \A s \in missing : \E t \in new : name[t] = s
                  /\ tags' = [t \in Tag |-> IF t \in new THEN [state |-> "there", slug |-> name[t], active |-> TRUE] ELSE tags[t]]
             /\ tagOf' = {l \in tagOf : l[1] # j} \union {<<j, t>> : t \in Synced(a, tagAsk[a].found \union new)}
             /\ wanted' = [wanted EXCEPT ![j] = tagAsk[a].found \union new]
        /\ crossed' = IF tagAsk[a].mixed \/ \E b \in Asker : tagAsk[b].step = "delete" /\ tagAsk[b].tag \in tagAsk[a].found
                      THEN crossed \union {j} ELSE crossed \ {j}
     \/ ~fits /\ UNCHANGED <<tags, tagOf, wanted, crossed>>
  /\ Answered(a) /\ UNCHANGED asked

\* create_tag, update_tag: a slug that is taken is refused, one that is being inserted is waited for.
SlugFree(a, s, but) == s \notin SlugsOf(There \ but) /\ ~Waits(a, {s})
CreateTag(a, t, s) ==
  /\ NewAsk(a) /\ tags[t].state = "unused" /\ SlugFree(a, s, {})
  /\ tags' = [tags EXCEPT ![t] = [state |-> "there", slug |-> s, active |-> TRUE]]
  /\ UNCHANGED <<tagOf, tagAsk, wanted, crossed>>
UpdateTag(a, t) ==
  /\ NewAsk(a) /\ t \in There
  /\ \E s \in Slug : SlugFree(a, s, {t}) /\ tags' = [tags EXCEPT ![t].slug = s]
  /\ UNCHANGED <<tagOf, tagAsk, wanted, crossed>>
\* activate_tag, deactivate_tag
ToggleTag(a, t) ==
  /\ NewAsk(a) /\ t \in There /\ tags' = [tags EXCEPT ![t].active = ~@]
  /\ UNCHANGED <<tagOf, tagAsk, wanted, crossed>>

\* mutant: the links are not counted
InUse_Never(t) == {}
InUse(t) == {l \in tagOf : l[2] = t}
\* delete_tag counts the jobs that have it, and later deletes it and, by cascade, its links.
DeleteAsked(a, t) ==
  /\ NewAsk(a) /\ t \in There /\ InUse(t) = {}
  /\ tagAsk' = [tagAsk EXCEPT ![a] = [NoTagAsk EXCEPT !.step = "delete", !.tag = t]]
  /\ UNCHANGED <<tags, tagOf, wanted, crossed>>
DeleteTag(a) ==
  LET t == tagAsk[a].tag IN
  /\ tagAsk[a].step = "delete" /\ Answered(a)
  /\ tags' = [tags EXCEPT ![t].state = "deleted"]
  /\ tagOf' = {l \in tagOf : l[2] # t}
  /\ UNCHANGED <<asked, wanted, crossed>>

TagsNext ==
  \E a \in Asker :
    \/ \E j \in Tagged, S \in SUBSET Slug : PutTags(a, j, S)
    \/ InsertTags(a) \/ CompareTags(a) \/ SaveTags(a) \/ DeleteTag(a)
    \/ \E t \in Tag : UpdateTag(a, t) \/ ToggleTag(a, t) \/ DeleteAsked(a, t) \/ \E s \in Slug : CreateTag(a, t, s)

TagsSpec == TagsInit /\ [][TagsNext]_tagVars

-----------------------------------------------------------------------------
TagsTypeOK ==
  /\ \A t \in Tag : tags[t].state \in {"unused", "there", "deleted"} /\ tags[t].active \in BOOLEAN
  /\ tagOf \subseteq Tagged \X There
  /\ \A s, t \in There : tags[s].slug = tags[t].slug => s = t

\* A job has the tags it was last given, and loses none to a deletion, which is refused for a tag in use:
\* unless another put of the job, or the deletion of one of the tags, overlapped the put.
TagsAreThoseGiven == \A j \in Tagged \ crossed : HasTag(j) = wanted[j]
=============================================================================
