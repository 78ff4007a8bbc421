----------------------------- MODULE MCModExport -----------------------------
\* Instance of ModExport for TLC: three bindable names for two slots, a
\* built-in, a name that is too long, and two addresses.
EXTENDS ModExport
MCBuiltins == [n \in {"modloader_export_add"} |-> 100]
MCNames == {"a", "b", "c", "modloader_export_add", "long", "none"}
==============================================================================
