------------------------------- MODULE Vocabulary -------------------------------
(* The closed sets of names shared by every component: the enumerations of         *)
(* orgctx/models.py and the subsets of them that other modules single out.          *)

\* models.Kind: what a contract is.  pkg_version is declared and never extracted.
Kinds == {"http_route", "export", "schema_model", "schema_field",
          "config_key", "queue_topic", "pkg_version"}

\* models.ChangeKind: how a commit touched a contract.
ChangeKinds == {"added", "modified", "removed", "signature_change",
                "behavior_note", "internal"}

\* models.EdgeKind: how a consumer uses a producer.
EdgeKinds == {"consumes", "imports", "depends_on_schema",
              "depends_on_config", "subscribes"}

\* models.Confidence: how sure the graph is of an edge.
Confidences == {"high", "medium", "low"}

\* models.EdgeSource, without the one value no code path writes ("llm").
EdgeSources == {"route_match", "import_parse", "subscribe_match", "manifest"}

\* models.ConsumerTag: what a consumer does with a producer.
ConsumerTags == {"call", "import", "subscribe"}

\* ingest: the verdicts that may be flagged as breaking a consumer.
BreakingKinds == {"signature_change", "removed"}

\* sync._SURFACE_KINDS: the verdicts a consumer is told about.
SurfaceKinds == {"removed", "signature_change", "modified", "behavior_note"}
=================================================================================
