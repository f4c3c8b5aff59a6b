------------------------------- MODULE Retrieval -------------------------------
(****************************************************************************)
(* HybridKnowledge.query (core/knowledge.py): four tiers of falling         *)
(* certainty, the last a human; and the Chunker of the same file, which     *)
(* cuts a text into the child chunks vectors are made of and the parent     *)
(* chunks a model is given.  Certainties are in hundredths.                 *)
(****************************************************************************)
EXTENDS Integers, FiniteSetsExt

CONSTANTS parent_size, child_size, overlap,  \* ChunkSpec
          MaxTokens                          \* bound on the length of a text

ASSUME ChunkSpec ==
  /\ parent_size \in Nat \ {0} /\ child_size \in Nat \ {0}
  /\ overlap \in 0..(parent_size - 1) /\ MaxTokens \in Nat

VARIABLES parents,   \* Chunk records of the text cut, and the parent each child names
          children,
          question,  \* what the tiers find for the question, one tuple once it is asked
          answer     \* the KnowledgeResult and the length of its tier_sequence

rtVars == <<parents, children, question, answer>>

RtInit ==
  /\ parents = {} /\ children = {} /\ question = <<>>
  /\ answer = [source |-> "none", confidence |-> 0, tiers |-> 0]

--------------------------------------------------------------------------------
(****************************************************************************)
(* Chunking.                                                                *)
(****************************************************************************)

\* One piece every size - lap tokens; the last ones may be short.
_slice_tokens(n, size, lap) ==
  LET step == size - lap
  IN  {[idx |-> i, tokens |-> (i * step)..(Min({i * step + size, n}) - 1)] :
         i \in 0..((n - 1) \div step)}

split_parents(n) == _slice_tokens(n, parent_size, overlap)

\* Wrong on purpose: children overlap as parents do.
SplitChildrenLapped(n) ==
  {[tokens |-> c.tokens, parent |-> 0] : c \in _slice_tokens(n, child_size, 1)}

\* The parent is numbered by the parents' size, not by the step between them.
split_children(n) ==
  {[tokens |-> c.tokens, parent |-> Min(c.tokens) \div parent_size] :
     c \in _slice_tokens(n, child_size, 0)}

\* A text with nothing but blanks raises ValueError.
Cut(n) ==
  /\ parents = {}
  /\ parents' = split_parents(n) /\ children' = split_children(n)
  /\ UNCHANGED <<question, answer>>

--------------------------------------------------------------------------------
(****************************************************************************)
(* The tiers.  0 stands for None.  The stock tiers 2 and 3 find nothing:    *)
(* a deployment overrides _rag_search_top_k and wires _llm_generate in      *)
(* behind _llm_call.                                                        *)
(****************************************************************************)
CONFIDENCE_THRESHOLD == 80
RAG_CONFIDENCE_THRESHOLD == 85
LLM_CONFIDENCE_THRESHOLD == 65
GROUNDING_THRESHOLD == 75

_score(match) == IF match = "exact" THEN 95 ELSE 70

\* The best of the rows found.
_rule_match(rows) ==
  LET best == Max({0} \union {_score(r) : r \in rows})
  IN  IF best < CONFIDENCE_THRESHOLD THEN 0 ELSE best

_rag_search(hits) ==
  LET confidence == IF hits THEN 90 ELSE 0
  IN  IF confidence < RAG_CONFIDENCE_THRESHOLD THEN 0 ELSE confidence

\* The second model is asked only when the first raises.
_call_llm_with_fallback(q) == IF q.primary = "raised" THEN q.fallback ELSE q.primary

\* A score is computed when none was passed (-1), unless there is nothing to compute it from.
Grounding(q) ==
  IF q.grounding # -1 THEN q.grounding
  ELSE IF _call_llm_with_fallback(q) = "empty" \/ ~q.context THEN 0 ELSE 100

\* Wrong on purpose: grounding is looked at only when the caller passed it.
LlmGenerateTrusting(q) ==
  IF _call_llm_with_fallback(q) = "raised" \/ q.grounding \in 0..(GROUNDING_THRESHOLD - 1)
  THEN 0 ELSE 100

_llm_generate(q) ==
  IF _call_llm_with_fallback(q) = "raised" \/ Grounding(q) < GROUNDING_THRESHOLD
  THEN 0 ELSE Grounding(q)

_record_tier_hit(confidence, threshold) == confidence > 0 /\ confidence >= threshold

Questions ==
  [rows : SUBSET {"exact", "partial"}, hits : BOOLEAN, context : BOOLEAN,
   primary : {"text", "empty", "raised"}, fallback : {"text", "empty", "raised"},
   grounding : {-1, 70, 80}]

\* The first tier that clears its threshold answers; the last always does.
query(q) ==
  LET found == <<_rule_match(q.rows), _rag_search(q.hits), _llm_generate(q), 0>>
      threshold == <<CONFIDENCE_THRESHOLD, RAG_CONFIDENCE_THRESHOLD, LLM_CONFIDENCE_THRESHOLD>>
      tier == Min({t \in 1..3 : _record_tier_hit(found[t], threshold[t])} \union {4})
  IN  /\ question = <<>>
      /\ question' = <<q>>
      /\ answer' = [source |-> <<"rule", "rag", "wiki", "escalate">>[tier],
                    confidence |-> found[tier], tiers |-> tier]
      /\ UNCHANGED <<parents, children>>

RtNext ==
  \/ \E n \in 1..MaxTokens : Cut(n)
  \/ parents = {} /\ \E q \in Questions : query(q)

RtSpec == RtInit /\ [][RtNext]_rtVars

--------------------------------------------------------------------------------
(****************************************************************************)
(* Properties.                                                              *)
(****************************************************************************)

\* Nothing of a text is lost to the search and nothing is indexed twice: each
\* token is in one child and in some parent, and every child names a parent
\* that exists.
ChunksWhole ==
  parents # {} =>
    LET text == UNION {p.tokens : p \in parents}
    IN  /\ \A t \in text : Cardinality({c \in children : t \in c.tokens}) = 1
        /\ UNION {c.tokens : c \in children} = text
        /\ \A c \in children : \E p \in parents : p.idx = c.parent

\* Model text reaches a customer only when a model gave it and it was found
\* grounded in something: the gate of tier 3 is below the grounding threshold
\* and would let a weaker answer pass.
GroundedOrPassedOn ==
  answer.source = "wiki" =>
    LET q == question[1]
    IN  /\ {q.primary, q.fallback} # {"raised"}
        /\ q.grounding >= GROUNDING_THRESHOLD \/ (q.grounding = -1 /\ q.context)

\* What the code says of its numbering: the parent a child names covers it.
ChildInParent ==
  \A c \in children, p \in parents : p.idx = c.parent => c.tokens \subseteq p.tokens
================================================================================
