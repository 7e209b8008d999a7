---------------------------- MODULE MCGenerationRun ----------------------------
\* A pipeline that sanitizes, as those of the catalog do, and one that does not.
EXTENDS GenerationRun

TwoPipelines == {<<"llm", "llm", "sanitize">>, <<"local", "llm">>}
=============================================================================
