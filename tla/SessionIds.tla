------------------------------ MODULE SessionIds ------------------------------
\* The session ids that start_session may draw (api/app.py, uuid4), shared by
\* the components that keep something per session.
CONSTANT Sessions
===============================================================================
