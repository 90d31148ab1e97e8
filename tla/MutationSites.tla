----------------------------- MODULE MutationSites -----------------------------
(***************************************************************************)
(* Where vhdl_mutate changes a design (vhdl/mutate.ts): the sites found by *)
(* a scan of its tokens, and the matches a substitution asked for          *)
(* replaces.  A design is written by a small grammar of VHDL that knows of *)
(* every token whether a mutation may change it; the scan has to find that *)
(* out with a few flags and no grammar.                                    *)
(***************************************************************************)
EXTENDS Integers, Sequences, SequencesExt

CONSTANTS
  Designs,  \* token sequences, each token with whether it may change: [token, site]
  Texts,    \* the texts a substitution is asked of
  Finds     \* the texts it looks for

\* Assumed of the constants where they are given values.
SitesAssumption == <<>> \notin Finds

VARIABLES
  design,  \* the design, or the text of a substitution
  find,    \* what the substitution looks for, <<>> when sites are to be found
  done,    \* it was read
  found    \* the sites, or what replacing each occurrence, and all, makes of the text

vars == <<design, find, done, found>>
-----------------------------------------------------------------------------
\* The grammar of Designs.  A bit literal is three tokens, for an apostrophe also starts an attribute.
Fixed(tokens) == [i \in DOMAIN tokens |-> [token |-> tokens[i], site |-> FALSE]]
Mutable(token) == <<[token |-> token, site |-> TRUE]>>
Unmarked(s) == [i \in DOMAIN s |-> [s[i] EXCEPT !.site = FALSE]]
N == Fixed(<<"name">>)
Bit(assigned) == <<[token |-> "'", site |-> assigned]>> \o Fixed(<<"0", "'">>)

Operands(assigned) ==
  {N, Bit(assigned),
   Fixed(<<"name", "'", "name">>),                                          \* clk'event
   Fixed(<<"name", "'", "(">>) \o Bit(assigned) \o Fixed(<<")">>),          \* std_logic'('1')
   Fixed(<<"(", "name", "=>">>) \o Bit(assigned) \o Fixed(<<")">>),         \* (others => '0')
   Fixed(<<"name", "(", "name">>) \o Mutable("<=") \o Fixed(<<"name", ")", "'", "name">>),  \* f(a <= b)'length
   Fixed(<<"+", "name">>),                                                  \* a sign
   Mutable("not") \o N}
Expressions(assigned) ==
  Operands(assigned)
  \cup {a \o Mutable(op) \o N : a \in Operands(assigned), op \in {"+", "<=", "and"}}
  \cup {N \o Mutable(op) \o a : a \in {Bit(assigned), Fixed(<<"+", "name">>)}, op \in {"<=", "and"}}

\* value: an expression that is assigned; test: one that is not.
Statements(value, test) ==
  LET assignment == Fixed(<<"name", "<=">>) \o value IN
  {assignment \o Fixed(<<";">>),
   Fixed(<<"name", ":=">>) \o value \o Fixed(<<";">>),
   assignment \o Fixed(<<"when">>) \o test \o Fixed(<<"else">>) \o value \o Fixed(<<";">>),
   Fixed(<<"when", "name", "select">>) \o assignment \o Fixed(<<"when">>) \o test \o Fixed(<<",">>) \o value
     \o Fixed(<<"when", "name", ";">>),
   Fixed(<<"when">>) \o test \o Fixed(<<"else">>) \o assignment \o Fixed(<<";">>),           \* if .. then
   Fixed(<<"name", "is", "when">>) \o test \o Fixed(<<"=>">>) \o assignment \o Fixed(<<";">>),  \* case .. is
   Fixed(<<"is", "name", "to", "number", "to", "name">>) \o Mutable("+") \o N \o Fixed(<<"is">>) \o assignment
     \o Fixed(<<";">>),                                                                        \* for .. in .. loop
   Fixed(<<"when">>) \o test \o Fixed(<<"is", "number", ";">>),                              \* assert .. report
   Fixed(<<"name", "(", "name", ")", "when", "name", "is", "name", "when">>) \o test \o Fixed(<<";">>),  \* function .. return
   Fixed(<<"signal", "name", ":=">>) \o Unmarked(value) \o Fixed(<<";">>),
   Fixed(<<"name", "signal", "name", "(", "name", "=>">>) \o Unmarked(test) \o Fixed(<<")", ";">>)}  \* port map
-----------------------------------------------------------------------------
\* "when" stands for the words of CONDITION_STARTS, "else" and "is" for those of CONDITION_ENDS that are and are
\* not of BEFORE_EXPRESSION, "to" for the other words of BEFORE_EXPRESSION, "signal" for those of DECLARATIONS.
BeforeExpression == {"when", "else", "select", "to", "and", "not"}
ConditionEnds == {"else", "select", "is"}
Words == BeforeExpression \cup ConditionEnds \cup {"name", "signal"}
Swaps == {"+", "<="}

Scan0 == [next |-> 1, depth |-> 0, condition |-> FALSE, assigned |-> FALSE, declaration |-> FALSE,
          previous |-> "other", sites |-> {}]

Site(s, i, when) == IF when THEN s.sites \cup {i} ELSE s.sites

Apostrophe(s, tokens, i) ==
  LET literal == s.previous # "name" /\ i + 2 <= Len(tokens) /\ tokens[i + 2] = "'"
      bit == literal /\ tokens[i + 1] = "0"
  IN [s EXCEPT !.next = IF literal THEN i + 3 ELSE i + 1,
               !.previous = IF literal THEN "literal" ELSE "other",
               !.sites = Site(s, i, bit /\ s.assigned /\ ~s.condition /\ ~s.declaration)]

WordAt(s, word, i) ==
  [s EXCEPT !.next = i + 1,
            !.declaration = @ \/ (s.depth = 0 /\ word = "signal"),
            !.condition = IF s.depth # 0 THEN @ ELSE (@ \/ word = "when") /\ word \notin ConditionEnds,
            !.sites = Site(s, i, ~s.declaration /\ word \in {"and", "not"}),
            !.previous = IF word \in BeforeExpression THEN "other" ELSE "name"]

\* Faulty variant: the flags are left as they are at the end of a statement.
KeepsFlags(s) == s
StatementEnds(s) == [s EXCEPT !.condition = FALSE, !.assigned = FALSE, !.declaration = FALSE]

Flagged(s, operator) ==
  CASE operator = "(" -> [s EXCEPT !.depth = @ + 1]
    [] operator = ")" -> [s EXCEPT !.depth = IF @ = 0 THEN 0 ELSE @ - 1]
    [] s.depth = 0 /\ operator = ";" -> StatementEnds(s)
    [] s.depth = 0 /\ operator \in {",", "=>"} -> [s EXCEPT !.condition = FALSE]
    [] s.depth = 0 /\ operator = ":=" -> [s EXCEPT !.assigned = TRUE]
    [] OTHER -> s

OperatorAt(s, operator, i) ==
  LET f == Flagged(s, operator)
      sign == operator = "+" /\ s.previous = "other"
      assigns == operator = "<=" /\ f.depth = 0 /\ ~f.condition /\ ~f.assigned
  IN [f EXCEPT !.next = i + 1,
               !.assigned = @ \/ assigns,
               !.sites = Site(f, i, ~assigns /\ ~f.declaration /\ ~sign /\ operator \in Swaps),
               !.previous = IF operator = ")" THEN "name" ELSE "other"]

ScanToken(s, tokens, i) ==
  CASE s.next # i -> s
    [] s.next = i /\ tokens[i] = "'" -> Apostrophe(s, tokens, i)
    [] s.next = i /\ tokens[i] \in {"number", "0"} -> [s EXCEPT !.next = i + 1, !.previous = "literal"]
    [] s.next = i /\ tokens[i] \in Words -> WordAt(s, tokens[i], i)
    [] OTHER -> OperatorAt(s, tokens[i], i)

FindSites(tokens) ==
  FoldLeft(LAMBDA s, i : ScanToken(s, tokens, i), Scan0, [i \in DOMAIN tokens |-> i]).sites
-----------------------------------------------------------------------------
\* applyMutation.
MatchesAt(text, i) == i + Len(find) - 1 <= Len(text) /\ SubSeq(text, i, i + Len(find) - 1) = find
Matches(text) ==
  FoldLeft(LAMBDA m, i : IF MatchesAt(text, i) /\ (m = <<>> \/ Last(m) + Len(find) <= i) THEN Append(m, i) ELSE m,
           <<>>, [i \in 1 .. Len(text) |-> i])
ReplaceMatch(text, i, new) == SubSeq(text, 1, i - 1) \o new \o SubSeq(text, i + Len(find), Len(text))
\* The text is split at the matches and joined with what replaces them.
ReplaceMatches(text, new) ==
  LET matches == Matches(text)
      from(k) == IF k = 0 THEN 1 ELSE matches[k] + Len(find)
      to(k) == IF k = Len(matches) THEN Len(text) ELSE matches[k + 1] - 1
      piece(k) == SubSeq(text, from(k), to(k))
  IN FoldLeft(LAMBDA joined, k : joined \o new \o piece(k), piece(0), [k \in DOMAIN matches |-> k])

New == <<"new">>
Nothing == [sites |-> {}, each |-> <<>>, all |-> <<>>]
Init ==
  /\ done = FALSE /\ found = Nothing
  /\ \/ design \in Designs /\ find = <<>>
     \/ design \in Texts /\ find \in Finds

Discover ==
  /\ ~done /\ done' = TRUE /\ find = <<>>
  /\ found' = [Nothing EXCEPT !.sites = FindSites([i \in DOMAIN design |-> design[i].token])]
  /\ UNCHANGED <<design, find>>
\* An occurrence there is none of is refused.
Substitute ==
  /\ ~done /\ done' = TRUE /\ find # <<>>
  /\ found' = [Nothing EXCEPT !.each = [k \in DOMAIN Matches(design) |-> ReplaceMatch(design, Matches(design)[k], New)],
                               !.all = ReplaceMatches(design, New)]
  /\ UNCHANGED <<design, find>>
Next == Discover \/ Substitute
Spec == Init /\ [][Next]_vars
-----------------------------------------------------------------------------
(***************************************************************************)
(* The scan finds exactly what may change: operators and comparisons, the  *)
(* logical words, and '0' and '1' where they are assigned.  It leaves a    *)
(* sign, the arrow of an assignment or of a choice, an attribute, a bit    *)
(* that is compared, and everything of a declaration alone, whatever       *)
(* statements stand before.                                                *)
(***************************************************************************)
SitesAreOperators == (done /\ find = <<>>) => found.sites = {i \in DOMAIN design : design[i].site}

(***************************************************************************)
(* Replacing the occurrences one by one, the last first, is replacing them *)
(* all; none is left between two of them, and each changes its own.        *)
(***************************************************************************)
OccurrencesAreAll == (done /\ find # <<>>) =>
  LET matches == Matches(design)
      oneByOne == FoldRight(LAMBDA i, text : ReplaceMatch(text, i, New), matches, design)
  IN /\ found.all = oneByOne
     /\ \A i \in 1 .. Len(design) : MatchesAt(design, i) => \E k \in DOMAIN matches : matches[k] \in i - Len(find) + 1 .. i
     /\ \A j, k \in DOMAIN matches : j # k => found.each[j] # found.each[k]
=============================================================================
