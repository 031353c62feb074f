--------------------------- MODULE MCCatalogReload ---------------------------
\* CatalogEdit on a small instance: two editors, two pool connections and
\* three reload tasks, so that one waits.
EXTENDS CatalogEdit
=============================================================================
