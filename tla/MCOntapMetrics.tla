---------------------------- MODULE MCOntapMetrics ----------------------------
\* Small instance of the metrics poller: lists of collectors, two workloads;
\* COLLECTORS names one of its collectors twice.
EXTENDS OntapMetrics

HandlerLists == {<<"qos", "qtree", "qos", "snapmirror">>}
SingleLists == {<<"qtree">>}
SmallLags == {-1, 1}
=============================================================================
