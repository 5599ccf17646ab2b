------------------------------ MODULE MCEntities ------------------------------
EXTENDS Entities
===============================================================================
