----------------------------- MODULE MCVMPoolApi -----------------------------
EXTENDS VMPoolApi

CONSTANTS v1, v2, u1, u2

MCNames == {v1, v2}
MCCallers == {u1, u2}

====
