-------------------------- MODULE MCPaperAnalysis --------------------------
EXTENDS PaperAnalysis

\* Two titles: the first has a DOI wherever it is found, the second has none.
MCAnswers ==
  [semantic_scholar |-> {{1}}, pubmed |-> {{1}}, arxiv |-> {{1, 2}}, openalex |-> {{1}},
   crossref |-> {{1}}]
MCWithDoi == [s \in AllSources |-> {1}]
MCKgAnswers ==
  {[names |-> {"a", "b"}, relations |-> {<<"a", "b">>, <<"a", "c">>, <<"b", "b">>}, own |-> TRUE]}

MCOldCards == {<<"doi", 1>>}
=============================================================================
